---- MODULE Spec2Model ----
(***************************************************************************)
(* Chainalyze: the ledger client's pacing and retry (services/solana.ts),  *)
(* address clustering (clusterTransactions), the pattern heuristics and    *)
(* the pattern-based risk report (services/patternDetection.ts) and the    *)
(* external risk fusion (services/webacy.ts).                              *)
(*                                                                         *)
(* Amounts are fixed-point numbers: the integer a stands for the amount    *)
(* a / AmountUnit.  Scores are exact rationals [n, d] or one of the        *)
(* non-finite doubles NaN and -Infinity.                                   *)
(***************************************************************************)
EXTENDS Integers, Sequences, FiniteSets, TLC

VARIABLES
    txs,          \* what fetchWalletTransactions returns for the focal address
    patterns,     \* detectTransactionPatterns' result
    report,       \* generateRiskReport's result
    ppc,          \* position of the pattern analysis: "build", "detected", "reported"
    now,          \* Date.now(), in ms
    lastRequestTime,  \* the module-level variable of services/solana.ts
    callers,      \* per caller of retryWithBackoff: where it is and what it holds
    minGap,       \* smallest distance seen between two consecutive fetch starts
    access,       \* who wrote lastRequestTime last, and whether the latest
                  \* caller to read or write it met another caller's value
    ledger,       \* the transfers on chain, newest first
    run,          \* the activation of clusterTransactions: its locals and result
    risk,         \* the activation of getComprehensiveRiskAnalysis
    flows,        \* the TransactionFlow list handed to identifyCriticalPaths
    flowParams,   \* the params object handed to identifyCriticalPaths
    criticalPaths,    \* identifyCriticalPaths' result
    fpc           \* position of the path analysis: "build", "done"

patternVars == <<txs, patterns, report, ppc>>

retryVars == <<now, lastRequestTime, callers, minGap, access>>

clusterVars == <<ledger, run>>

fusionVars == <<risk>>

flowVars == <<flows, flowParams, criticalPaths, fpc>>

vars == <<txs, patterns, report, ppc, now, lastRequestTime, callers, minGap,
          access, ledger, run, risk, flows, flowParams, criticalPaths, fpc>>

\* what the pattern analysis leaves alone, and what the ledger client does
notPattern == <<retryVars, clusterVars, fusionVars, flowVars>>
notRetry == <<patternVars, clusterVars, fusionVars, flowVars>>
notCluster == <<patternVars, retryVars, fusionVars, flowVars>>
notFusion == <<patternVars, retryVars, clusterVars, flowVars>>
notFlow == <<patternVars, retryVars, clusterVars, fusionVars>>

----------------------------------------------------------------------------
(* Bounds *)

MaxTxs == 11          \* longest transfer list handed to the heuristics
AmountUnit == 10      \* an amount a is stored as the integer a * AmountUnit
TickMs == 500         \* the clock advances in steps of TickMs
MaxPermuted == 4      \* longest transfer list tried in every order
MaxTime == 9000       \* the clock stops here

----------------------------------------------------------------------------
(* Helpers over sequences *)

RECURSIVE SumSeq(_)
SumSeq(s) == IF s = <<>> THEN 0 ELSE Head(s) + SumSeq(Tail(s))

Range(s) == {s[i] : i \in DOMAIN s}

\* the first limit elements: the "limit" of getSignaturesForAddress, slice(0, n)
Limit(ts, limit) == SubSeq(ts, 1, IF Len(ts) < limit THEN Len(ts) ELSE limit)

\* slice(0, 5)
Limit5(s) == Limit(s, 5)

\* Array.prototype.map over the field read by the callback
MapSignature(ts) == [i \in DOMAIN ts |-> ts[i].signature]

----------------------------------------------------------------------------
(* JavaScript Map and Set, which iterate in insertion order: a Map is a    *)
(* sequence of [key, val] entries, a Set a sequence without repeats.       *)

MapHas(m, k) == \E i \in DOMAIN m : m[i].key = k

\* map.get(k) || 0
MapGet(m, k) ==
    IF MapHas(m, k) THEN m[CHOOSE i \in DOMAIN m : m[i].key = k].val ELSE 0

\* map.set(k, v): an existing key keeps its place
MapSet(m, k, v) ==
    IF MapHas(m, k)
    THEN [i \in DOMAIN m |-> IF m[i].key = k THEN [key |-> k, val |-> v] ELSE m[i]]
    ELSE Append(m, [key |-> k, val |-> v])

\* map.set(k, (map.get(k) || 0) + d)
MapAdd(m, k, d) == MapSet(m, k, MapGet(m, k) + d)

SetAdd(s, e) == IF e \in Range(s) THEN s ELSE Append(s, e)

\* Number.prototype.toString for a non-negative integer, as decimal digits
RECURSIVE NumToString(_)
NumToString(n) ==
    IF n < 10 THEN <<n>> ELSE Append(NumToString(n \div 10), n % 10)

\* Number(string) for a string of decimal digits
RECURSIVE StrToNumber(_)
StrToNumber(d) ==
    IF Len(d) = 0 THEN 0
    ELSE 10 * StrToNumber(SubSeq(d, 1, Len(d) - 1)) + d[Len(d)]

----------------------------------------------------------------------------
(* services/patternDetection.ts: detectTransactionPatterns *)

rapidSuccessionThreshold == 5

\* Math.floor((tx.blockTime * 1000) / (60 * 60 * 1000))
HourOf(tx) == (tx.blockTime * 1000) \div (60 * 60 * 1000)

\* Math.floor(tx.amount) === tx.amount
IsRound(a) == a % AmountUnit = 0

\* Math.floor(tx.amount / 10) * 10
ValueRange(a) == (a \div (10 * AmountUnit)) * 10

\* one turn of the loop "for (const tx of transactions)"
ProcessTx(acc, tx, address) ==
    LET hour == HourOf(tx)
        im1  == IF tx.source # "" /\ tx.source # address
                THEN MapAdd(acc.interactionMap, tx.source, 1)
                ELSE acc.interactionMap
        im2  == IF tx.destination # "" /\ tx.destination # address
                THEN MapAdd(im1, tx.destination, 1)
                ELSE im1
    IN  [timeMap        |-> MapAdd(acc.timeMap, hour, 1),
         valueMap       |-> IF tx.amount # 0
                            THEN MapAdd(acc.valueMap, hour, tx.amount)
                            ELSE acc.valueMap,
         roundedAmounts |-> IF tx.amount # 0 /\ IsRound(tx.amount)
                            THEN SetAdd(acc.roundedAmounts, tx.amount)
                            ELSE acc.roundedAmounts,
         interactionMap |-> im2]

\* ProcessAll whose loop ends at the first transfer without an amount
RECURSIVE ProcessAllStopAtEmpty(_, _, _)
ProcessAllStopAtEmpty(acc, ts, address) ==
    IF ts = <<>> \/ Head(ts).amount = 0 THEN acc
    ELSE ProcessAllStopAtEmpty(ProcessTx(acc, Head(ts), address), Tail(ts),
                               address)

RECURSIVE ProcessAll(_, _, _)
ProcessAll(acc, ts, address) ==
    IF ts = <<>> THEN acc
    ELSE ProcessAll(ProcessTx(acc, Head(ts), address), Tail(ts), address)

EmptyMaps ==
    [timeMap |-> <<>>, valueMap |-> <<>>, roundedAmounts |-> <<>>,
     interactionMap |-> <<>>]

\* RapidPattern with the evidence taken from every fetched transfer
RapidPatternAllEvidence(ts, maps, e) ==
    [type         |-> "RAPID_SUCCESSION",
     severity     |-> IF e.val > 10 THEN "high" ELSE "medium",
     confidence   |-> 80,
     transactions |-> MapSignature(ts),
     metadata     |-> [hour |-> e.key, count |-> e.val,
                       totalValue |-> MapGet(maps.valueMap, e.key)]]

\* RapidPattern with the severity test written "count >= 10"
RapidPatternSeverityAtTen(ts, maps, e) ==
    LET hourTransactions == SelectSeq(ts, LAMBDA tx : HourOf(tx) = e.key)
    IN  [type         |-> "RAPID_SUCCESSION",
         severity     |-> IF e.val >= 10 THEN "high" ELSE "medium",
         confidence   |-> 80,
         transactions |-> MapSignature(hourTransactions),
         metadata     |-> [hour |-> e.key, count |-> e.val,
                           totalValue |-> MapGet(maps.valueMap, e.key)]]

\* the pattern pushed for one entry [hour, count] of timeMap
RapidPattern(ts, maps, e) ==
    LET hourTransactions == SelectSeq(ts, LAMBDA tx : HourOf(tx) = e.key)
    IN  [type         |-> "RAPID_SUCCESSION",
         severity     |-> IF e.val > 10 THEN "high" ELSE "medium",
         confidence   |-> 80,
         transactions |-> MapSignature(hourTransactions),
         metadata     |-> [hour |-> e.key, count |-> e.val,
                           totalValue |-> MapGet(maps.valueMap, e.key)]]

\* RapidPatterns that stops at the first qualifying entry
RapidPatternsFirstOnly(ts, maps) ==
    LET hit == SelectSeq(maps.timeMap,
                         LAMBDA e : e.val >= rapidSuccessionThreshold)
    IN  IF Len(hit) > 0 THEN << RapidPattern(ts, maps, hit[1]) >> ELSE <<>>

\* "for (const [hour, count] of timeMap)": one pattern per qualifying entry
RapidPatterns(ts, maps) ==
    LET hit == SelectSeq(maps.timeMap,
                         LAMBDA e : e.val >= rapidSuccessionThreshold)
    IN  [i \in DOMAIN hit |-> RapidPattern(ts, maps, hit[i])]

\* CircularPatterns without the test "circularTxs.length >= 3"
CircularPatternsAnyFrequent(ts, maps) ==
    LET frequentInteractions ==
            SelectSeq(maps.interactionMap, LAMBDA e : e.val >= 3)
        circularTxs ==
            SelectSeq(ts, LAMBDA tx :
                \E i \in DOMAIN frequentInteractions :
                    \/ tx.source = frequentInteractions[i].key
                    \/ tx.destination = frequentInteractions[i].key)
    IN  IF Len(frequentInteractions) > 0
        THEN << [type         |-> "CIRCULAR_TRADING",
                 severity     |-> "high",
                 confidence   |-> 70,
                 transactions |-> MapSignature(circularTxs),
                 metadata     |->
                    [participants |-> [i \in DOMAIN frequentInteractions |->
                                          frequentInteractions[i].key],
                     totalInteractions |->
                         SumSeq([i \in DOMAIN frequentInteractions |->
                                    frequentInteractions[i].val])]] >>
        ELSE <<>>

CircularPatterns(ts, maps) ==
    LET frequentInteractions ==
            SelectSeq(maps.interactionMap, LAMBDA e : e.val >= 3)
        circularTxs ==
            SelectSeq(ts, LAMBDA tx :
                \E i \in DOMAIN frequentInteractions :
                    \/ tx.source = frequentInteractions[i].key
                    \/ tx.destination = frequentInteractions[i].key)
    IN  IF Len(frequentInteractions) > 0 /\ Len(circularTxs) >= 3
        THEN << [type         |-> "CIRCULAR_TRADING",
                 severity     |-> "high",
                 confidence   |-> 70,
                 transactions |-> MapSignature(circularTxs),
                 metadata     |->
                    [participants |-> [i \in DOMAIN frequentInteractions |->
                                          frequentInteractions[i].key],
                     totalInteractions |->
                         SumSeq([i \in DOMAIN frequentInteractions |->
                                    frequentInteractions[i].val])]] >>
        ELSE <<>>

\* WashPatterns with the test written "roundedTxs.length > 3"
WashPatternsMoreThanThree(ts, maps) ==
    LET roundedTxs ==
            SelectSeq(ts, LAMBDA tx :
                tx.amount # 0 /\ tx.amount \in Range(maps.roundedAmounts))
    IN  IF Len(maps.roundedAmounts) > 0 /\ Len(roundedTxs) > 3
        THEN << [type         |-> "WASH_TRADING",
                 severity     |-> "high",
                 confidence   |-> 60,
                 transactions |-> MapSignature(roundedTxs),
                 metadata     |-> [roundedAmounts |-> maps.roundedAmounts,
                                   frequency |-> Len(roundedTxs)]] >>
        ELSE <<>>

WashPatterns(ts, maps) ==
    LET roundedTxs ==
            SelectSeq(ts, LAMBDA tx :
                tx.amount # 0 /\ tx.amount \in Range(maps.roundedAmounts))
    IN  IF Len(maps.roundedAmounts) > 0 /\ Len(roundedTxs) >= 3
        THEN << [type         |-> "WASH_TRADING",
                 severity     |-> "high",
                 confidence   |-> 60,
                 transactions |-> MapSignature(roundedTxs),
                 metadata     |-> [roundedAmounts |-> maps.roundedAmounts,
                                   frequency |-> Len(roundedTxs)]] >>
        ELSE <<>>

\* transactions.forEach(tx => valueRanges.set(range.toString(), ...))
RECURSIVE ValueRanges(_, _)
ValueRanges(m, ts) ==
    IF ts = <<>> THEN m
    ELSE ValueRanges(IF Head(ts).amount # 0
                     THEN MapAdd(m, NumToString(ValueRange(Head(ts).amount)), 1)
                     ELSE m,
                     Tail(ts))

LayeringPatterns(ts) ==
    LET suspiciousRanges ==
            SelectSeq(ValueRanges(<<>>, ts), LAMBDA e : e.val >= 5)
    IN  IF Len(suspiciousRanges) >= 2
        THEN << [type         |-> "LAYERING",
                 severity     |-> "medium",
                 confidence   |-> 65,
                 transactions |->
                    MapSignature(SelectSeq(ts, LAMBDA tx :
                        /\ tx.amount # 0
                        /\ \E i \in DOMAIN suspiciousRanges :
                               ValueRange(tx.amount)
                                   = StrToNumber(suspiciousRanges[i].key))),
                 metadata     |->
                    [valueRanges |-> suspiciousRanges,
                     totalOccurrences |->
                         SumSeq([i \in DOMAIN suspiciousRanges |->
                                    suspiciousRanges[i].val])]] >>
        ELSE <<>>

\* the list returned for the transfers ts fetched for address
detectTransactionPatterns(ts, address) ==
    LET maps == ProcessAll(EmptyMaps, ts, address)
    IN  RapidPatterns(ts, maps) \o CircularPatterns(ts, maps)
            \o WashPatterns(ts, maps) \o LayeringPatterns(ts)

----------------------------------------------------------------------------
(* IEEE doubles as far as the scores need them: a finite value is the      *)
(* exact rational n / d in lowest terms (d > 0); NaN and -Infinity are     *)
(* the two non-finite values the report's divisions and Math.max() yield.  *)

RECURSIVE Gcd(_, _)
Gcd(a, b) == IF b = 0 THEN a ELSE Gcd(b, a % b)

Abs(a) == IF a < 0 THEN 0 - a ELSE a

Lcm(a, b) == (a \div Gcd(a, b)) * b

NaN    == [k |-> "nan", n |-> 0, d |-> 1]
NegInf == [k |-> "ninf", n |-> 0, d |-> 1]
PosInf == [k |-> "pinf", n |-> 0, d |-> 1]

Fin(a, b) ==
    LET g == Gcd(Abs(a), b)
    IN  [k |-> "fin", n |-> a \div g, d |-> b \div g]

\* a / b for integers a and b >= 0: 0 / 0 is NaN, x / 0 is an infinity
Div(a, b) ==
    IF b # 0 THEN Fin(a, b)
    ELSE IF a = 0 THEN NaN ELSE IF a > 0 THEN PosInf ELSE NegInf

\* x / c for a double x and an integer c > 0
DivBy(x, c) == IF x.k = "fin" THEN Fin(x.n, x.d * c) ELSE x

\* Math.min(x, 1)
MinOne(x) ==
    IF x.k = "nan" \/ x.k = "ninf" THEN x
    ELSE IF x.k = "pinf" \/ x.n > x.d THEN Fin(1, 1)
    ELSE x

\* Math.max(...counts): -Infinity when there is no argument
RECURSIVE MaxOf(_)
MaxOf(s) ==
    IF s = <<>> THEN NegInf
    ELSE LET r == MaxOf(Tail(s))
         IN  IF r.k = "fin" /\ r.n >= Head(s) THEN r ELSE Fin(Head(s), 1)

\* x > c / 100 (false on NaN, as every comparison with NaN)
Greater(x, c) == x.k = "pinf" \/ (x.k = "fin" /\ x.n * 100 > c * x.d)

\* x * (w / 100) for a weight w > 0
Times(x, w) == IF x.k = "fin" THEN Fin(x.n * w, x.d * 100) ELSE x

\* x + y
Plus(x, y) ==
    IF x.k = "nan" \/ y.k = "nan" THEN NaN
    ELSE IF x.k = "ninf" \/ y.k = "ninf"
         THEN IF x.k = "pinf" \/ y.k = "pinf" THEN NaN ELSE NegInf
    ELSE IF x.k = "pinf" \/ y.k = "pinf" THEN PosInf
    ELSE LET l == Lcm(x.d, y.d)
         IN  Fin(x.n * (l \div x.d) + y.n * (l \div y.d), l)

\* 0 <= x <= 1
InUnit(x) == x.k = "fin" /\ x.n >= 0 /\ x.n <= x.d

----------------------------------------------------------------------------
(* services/patternDetection.ts: generateRiskReport *)

\* pattern.severity === 'high' ? 1 : pattern.severity === 'medium' ? 0.6 : 0.3,
\* in tenths
severityScore(p) ==
    IF p.severity = "high" THEN 10 ELSE IF p.severity = "medium" THEN 6 ELSE 3

\* patterns.reduce(...) / Math.max(patterns.length, 1); confidence is in
\* hundredths, so the sum is in thousandths
PatternRisk(ps) ==
    LET len == Len(ps)
    IN  Div(SumSeq([i \in DOMAIN ps |-> severityScore(ps[i]) * ps[i].confidence]),
            1000 * (IF len > 1 THEN len ELSE 1))

\* Math.min((totalVolume / transactions.length) / 1000, 1)
VolumeRisk(ts) ==
    LET totalVolume == SumSeq([i \in DOMAIN ts |-> ts[i].amount])
        avgVolume   == DivBy(Div(totalVolume, Len(ts)), AmountUnit)
    IN  MinOne(DivBy(avgVolume, 1000))

\* Math.min(uniqueInteractions.size / 50, 1)
InteractionRisk(ts) ==
    LET uniqueInteractions ==
            {ts[i].source : i \in {j \in DOMAIN ts : ts[j].source # ""}}
              \cup {ts[i].destination :
                        i \in {j \in DOMAIN ts : ts[j].destination # ""}}
    IN  MinOne(Div(Cardinality(uniqueInteractions), 50))

RECURSIVE HourCounts(_, _)
HourCounts(m, ts) ==
    IF ts = <<>> THEN m
    ELSE HourCounts(MapAdd(m, HourOf(Head(ts)), 1), Tail(ts))

\* Math.min(Math.max(...Array.from(timeMap.values())) / 20, 1)
TemporalRisk(ts) ==
    LET timeMap == HourCounts(<<>>, ts)
        maxTransactionsPerHour == MaxOf([i \in DOMAIN timeMap |-> timeMap[i].val])
    IN  MinOne(DivBy(maxTransactionsPerHour, 20))

\* the report for the transfers ts fetched for the address and the patterns ps
generateRiskReport(ts, ps) ==
    LET patternRisk     == PatternRisk(ps)
        volumeRisk      == VolumeRisk(ts)
        interactionRisk == InteractionRisk(ts)
        temporalRisk    == TemporalRisk(ts)
    IN  [overallRiskScore |->
            Plus(Plus(Plus(Times(patternRisk, 40), Times(volumeRisk, 30)),
                      Times(interactionRisk, 15)),
                 Times(temporalRisk, 15)),
         patterns    |-> ps,
         riskFactors |-> <<patternRisk, volumeRisk, interactionRisk, temporalRisk>>,
         recommendations |->
            (IF Greater(patternRisk, 70)
             THEN <<"Investigate suspicious transaction patterns">> ELSE <<>>)
            \o (IF Greater(volumeRisk, 70)
                THEN <<"Review high-volume transactions">> ELSE <<>>)
            \o (IF Greater(interactionRisk, 70)
                THEN <<"Analyze frequent interaction partners">> ELSE <<>>)
            \o (IF Greater(temporalRisk, 70)
                THEN <<"Examine unusual transaction timing patterns">> ELSE <<>>)]

----------------------------------------------------------------------------
(* services/solana.ts: rateLimit and retryWithBackoff.  JavaScript runs a  *)
(* callback to its next await without interruption, so a step below is the *)
(* code between two suspension points: a timer (wait) or the wrapped fetch.*)

RATE_LIMIT_DELAY == 500
MAX_RETRIES == 3
INITIAL_RETRY_DELAY == 1000

Callers == {"c1", "c2"}

\* how the wrapped fetch can settle: a result, or an error whose
\* error.response.status is 429, another status, or absent (0)
Outcomes ==
    { [ok |-> TRUE,  status |-> 200], [ok |-> FALSE, status |-> 429],
      [ok |-> FALSE, status |-> 500], [ok |-> FALSE, status |-> 0] }

NoOutcome == [ok |-> FALSE, status |-> -1]

IdleCaller ==
    [pc       |-> "idle",   \* idle, pacing, fetching, backoff, returned, thrown
     retries  |-> 0,        \* the parameter "retries" of the running activation
     delay    |-> 0,        \* the parameter "delay" of the running activation
     wakeAt   |-> 0,        \* when the pending timer is due
     attempts |-> 0,        \* number of times fn() has been called
     paced    |-> 0,        \* number of times rateLimit() has been called
     waits    |-> <<>>,     \* the delays handed to wait() by the catch block
     settled  |-> <<>>,     \* how each call of fn() settled
     result   |-> NoOutcome]

RetryIdle ==
    /\ now = 2 * RATE_LIMIT_DELAY
    /\ lastRequestTime = 0
    /\ callers = [c \in Callers |-> IdleCaller]
    /\ minGap = RATE_LIMIT_DELAY
    /\ access = [writer |-> "none", foreign |-> FALSE]

\* lastRequestTime = Date.now(), after which rateLimit returns and the
\* awaiting retryWithBackoff calls fn(): the fetch starts
StartFetch(c, st) ==
    /\ lastRequestTime' = now
    /\ minGap' = IF lastRequestTime # 0 /\ now - lastRequestTime < minGap
                 THEN now - lastRequestTime ELSE minGap
    /\ access' = [writer |-> c, foreign |-> access.writer \notin {"none", c}]
    /\ callers' = [callers EXCEPT ![c] =
                      [st EXCEPT !.pc = "fetching", !.attempts = @ + 1]]

\* rateLimit() up to its await, entered by the activation st of caller c
rateLimit(c, st) ==
    LET timeSinceLastRequest == now - lastRequestTime
        entered == [st EXCEPT !.paced = @ + 1]
    IN  IF timeSinceLastRequest < RATE_LIMIT_DELAY
        THEN /\ callers' = [callers EXCEPT ![c] =
                   [entered EXCEPT !.pc = "pacing",
                       !.wakeAt = now + (RATE_LIMIT_DELAY - timeSinceLastRequest)]]
             /\ access' = [access EXCEPT
                               !.foreign = access.writer \notin {"none", c}]
             /\ UNCHANGED <<lastRequestTime, minGap>>
        ELSE StartFetch(c, entered)

\* a caller invokes retryWithBackoff(fn) with the default parameters
Call(c) ==
    /\ callers[c].pc \in {"idle", "returned", "thrown"}
    /\ rateLimit(c, [IdleCaller EXCEPT !.retries = MAX_RETRIES,
                                       !.delay = INITIAL_RETRY_DELAY])
    /\ UNCHANGED <<now, notRetry>>

\* the timer of rateLimit's wait fires
PacingDone(c) ==
    /\ callers[c].pc = "pacing"
    /\ now >= callers[c].wakeAt
    /\ StartFetch(c, callers[c])
    /\ UNCHANGED <<now, notRetry>>

\* Settle whose catch block retries whatever the error is
SettleRetryAnyError(c, o) ==
    LET st == [callers[c] EXCEPT !.settled = Append(@, o.status)]
    IN  /\ callers[c].pc = "fetching"
        /\ callers' = [callers EXCEPT ![c] =
              IF o.ok
              THEN [st EXCEPT !.pc = "returned", !.result = o]
              ELSE IF st.retries = 0
                   THEN [st EXCEPT !.pc = "thrown", !.result = o]
                   ELSE [st EXCEPT !.pc = "backoff",
                                   !.wakeAt = now + st.delay,
                                   !.waits = Append(@, st.delay)]]
        /\ UNCHANGED <<now, lastRequestTime, minGap, access, notRetry>>

\* fn() settles with outcome o: return, or the catch block
Settle(c, o) ==
    LET st == [callers[c] EXCEPT !.settled = Append(@, o.status)]
    IN  /\ callers[c].pc = "fetching"
        /\ callers' = [callers EXCEPT ![c] =
              IF o.ok
              THEN [st EXCEPT !.pc = "returned", !.result = o]
              ELSE IF st.retries = 0 \/ o.status # 429
                   THEN [st EXCEPT !.pc = "thrown", !.result = o]
                   ELSE [st EXCEPT !.pc = "backoff",
                                   !.wakeAt = now + st.delay,
                                   !.waits = Append(@, st.delay)]]
        /\ UNCHANGED <<now, lastRequestTime, minGap, access, notRetry>>

FetchSettles(c) == \E o \in Outcomes : Settle(c, o)

\* BackoffDone that grows the delay by a constant step instead of doubling it
BackoffDoneLinear(c) ==
    /\ callers[c].pc = "backoff"
    /\ now >= callers[c].wakeAt
    /\ rateLimit(c, [callers[c] EXCEPT !.retries = @ - 1,
                                      !.delay = @ + INITIAL_RETRY_DELAY])
    /\ UNCHANGED <<now, notRetry>>

\* the timer of the catch block's wait fires:
\* retryWithBackoff(fn, retries - 1, delay * 2)
BackoffDone(c) ==
    /\ callers[c].pc = "backoff"
    /\ now >= callers[c].wakeAt
    /\ rateLimit(c, [callers[c] EXCEPT !.retries = @ - 1, !.delay = @ * 2])
    /\ UNCHANGED <<now, notRetry>>

\* time passes; a timer that is due fires before the clock moves on
Tick ==
    /\ now + TickMs <= MaxTime
    /\ \A c \in Callers :
          callers[c].pc \in {"pacing", "backoff"} => now < callers[c].wakeAt
    /\ now' = now + TickMs
    /\ UNCHANGED <<lastRequestTime, callers, minGap, access, notRetry>>

NextRetry ==
    \/ \E c \in Callers : Call(c)
    \/ \E c \in Callers : PacingDone(c)
    \/ \E c \in Callers : FetchSettles(c)
    \/ \E c \in Callers : BackoffDone(c)
    \/ Tick

----------------------------------------------------------------------------
(* services/solana.ts: clusterTransactions.  A cluster id is a number:     *)
(* 0 stands for 'center', n > 0 for `cluster-${n}`.                        *)

\* addressConnections.get(a) || new Set()
ConnGet(m, k) ==
    IF MapHas(m, k) THEN m[CHOOSE i \in DOMAIN m : m[i].key = k].val ELSE {}

\* if (!addressConnections.has(a)) addressConnections.set(a, new Set());
\* if (other) addressConnections.get(a)?.add(other)
ConnAdd(m, a, other) ==
    MapSet(m, a, ConnGet(m, a) \cup (IF other # "" THEN {other} ELSE {}))

\* the four statements that record the endpoint a of tx, whose other end is b
Record(g, a, b, tx) ==
    [uniqueAddresses    |-> SetAdd(g.uniqueAddresses, a),
     addressInteractions |-> MapAdd(g.addressInteractions, a, 1),
     addressVolume      |-> MapAdd(g.addressVolume, a, tx.amount),
     addressConnections |-> ConnAdd(g.addressConnections, a, b)]

\* MapFirstLevel without the tests "!== centerAddress"
MapFirstLevelRecordingCenter(g, tx, centerAddress) ==
    LET g1 == IF tx.source # ""
              THEN Record(g, tx.source, tx.destination, tx) ELSE g
    IN  IF tx.destination # ""
        THEN Record(g1, tx.destination, tx.source, tx) ELSE g1

\* the callback of "transactions.forEach" (initial mapping)
MapFirstLevel(g, tx, centerAddress) ==
    LET g1 == IF tx.source # "" /\ tx.source # centerAddress
              THEN Record(g, tx.source, tx.destination, tx) ELSE g
    IN  IF tx.destination # "" /\ tx.destination # centerAddress
        THEN Record(g1, tx.destination, tx.source, tx) ELSE g1

\* the callback of "secondLevelTxs.forEach"
MapSecondLevel(g, tx) ==
    LET g1 == IF tx.source # ""
              THEN Record(g, tx.source, tx.destination, tx) ELSE g
    IN  IF tx.destination # ""
        THEN Record(g1, tx.destination, tx.source, tx) ELSE g1

RECURSIVE FirstLevel(_, _, _)
FirstLevel(g, ts, centerAddress) ==
    IF ts = <<>> THEN g
    ELSE FirstLevel(MapFirstLevel(g, Head(ts), centerAddress), Tail(ts),
                    centerAddress)

RECURSIVE SecondLevel(_, _)
SecondLevel(g, ts) ==
    IF ts = <<>> THEN g
    ELSE SecondLevel(MapSecondLevel(g, Head(ts)), Tail(ts))

EmptyGraph ==
    [uniqueAddresses |-> <<>>, addressInteractions |-> <<>>,
     addressVolume |-> <<>>, addressConnections |-> <<>>]

\* insert e into the list s, sorted by descending val, behind its equals
RECURSIVE InsertDesc(_, _)
InsertDesc(s, e) ==
    IF s = <<>> THEN <<e>>
    ELSE IF Head(s).val >= e.val THEN <<Head(s)>> \o InsertDesc(Tail(s), e)
    ELSE <<e>> \o s

\* entries.sort((a, b) => b[1] - a[1]); Array.prototype.sort is stable
RECURSIVE SortDesc(_)
SortDesc(s) ==
    IF s = <<>> THEN <<>>
    ELSE InsertDesc(SortDesc(SubSeq(s, 1, Len(s) - 1)), s[Len(s)])

\* TopAddresses without the sort: the first 5 entries in insertion order
TopAddressesUnsorted(g) ==
    LET top == Limit5(g.addressInteractions)
    IN  [i \in DOMAIN top |-> top[i].key]

\* Array.from(addressInteractions.entries()).sort(...).slice(0, 5).map(e => e[0])
TopAddresses(g) ==
    LET top == Limit5(SortDesc(g.addressInteractions))
    IN  [i \in DOMAIN top |-> top[i].key]

\* detectCyclicTransfers dividing by addresses.length, not by twice it
detectCyclicTransfersPerMember(g, addresses) ==
    IF Len(addresses) < 3 THEN Fin(0, 1)
    ELSE LET cycles ==
                 Cardinality({p \in (DOMAIN addresses) \X (DOMAIN addresses) :
                     /\ p[1] # p[2]
                     /\ addresses[p[2]] \in
                            ConnGet(g.addressConnections, addresses[p[1]])})
         IN  MinOne(Div(cycles, Len(addresses)))

\* detectCyclicTransfers(addresses)
detectCyclicTransfers(g, addresses) ==
    IF Len(addresses) < 3 THEN Fin(0, 1)
    ELSE LET cycles ==
                 Cardinality({p \in (DOMAIN addresses) \X (DOMAIN addresses) :
                     /\ p[1] # p[2]
                     /\ addresses[p[2]] \in
                            ConnGet(g.addressConnections, addresses[p[1]])})
         IN  MinOne(Div(cycles, Len(addresses) * 2))

\* Gather with the overlap measured against the other address's connections
RECURSIVE GatherOtherSize(_, _, _, _, _)
GatherOtherSize(g, address, i, members, processed) ==
    IF i > Len(g.uniqueAddresses)
    THEN [clusterAddresses |-> members, processedAddresses |-> processed]
    ELSE LET otherAddress == g.uniqueAddresses[i]
             connections == ConnGet(g.addressConnections, address)
             otherConnections == ConnGet(g.addressConnections, otherAddress)
             overlap == Cardinality(connections \cap otherConnections)
             size == Cardinality(otherConnections)
         IN  IF otherAddress \in processed \/ otherAddress = address
             THEN GatherOtherSize(g, address, i + 1, members, processed)
             ELSE IF size > 0 /\ 10 * overlap > 3 * size
                  THEN GatherOtherSize(g, address, i + 1,
                                       Append(members, otherAddress),
                                       processed \cup {otherAddress})
                  ELSE GatherOtherSize(g, address, i + 1, members, processed)

\* Gather without "processedAddresses.add(otherAddress)"
RECURSIVE GatherUnmarked(_, _, _, _, _)
GatherUnmarked(g, address, i, members, processed) ==
    IF i > Len(g.uniqueAddresses)
    THEN [clusterAddresses |-> members, processedAddresses |-> processed]
    ELSE LET otherAddress == g.uniqueAddresses[i]
             connections == ConnGet(g.addressConnections, address)
             otherConnections == ConnGet(g.addressConnections, otherAddress)
             overlap == Cardinality(connections \cap otherConnections)
             size == Cardinality(connections)
         IN  IF otherAddress \in processed \/ otherAddress = address
             THEN GatherUnmarked(g, address, i + 1, members, processed)
             ELSE IF size > 0 /\ 10 * overlap > 3 * size
                  THEN GatherUnmarked(g, address, i + 1,
                                      Append(members, otherAddress), processed)
                  ELSE GatherUnmarked(g, address, i + 1, members, processed)

\* the inner loop "for (const otherAddress of uniqueAddresses)" from index i:
\* the members gathered around the seed address and the processed set
RECURSIVE Gather(_, _, _, _, _)
Gather(g, address, i, members, processed) ==
    IF i > Len(g.uniqueAddresses)
    THEN [clusterAddresses |-> members, processedAddresses |-> processed]
    ELSE LET otherAddress == g.uniqueAddresses[i]
             connections == ConnGet(g.addressConnections, address)
             otherConnections == ConnGet(g.addressConnections, otherAddress)
             overlap == Cardinality(connections \cap otherConnections)
             size == Cardinality(connections)
         IN  IF otherAddress \in processed \/ otherAddress = address
             THEN Gather(g, address, i + 1, members, processed)
             ELSE IF size > 0 /\ 10 * overlap > 3 * size
                  THEN Gather(g, address, i + 1, Append(members, otherAddress),
                              processed \cup {otherAddress})
                  ELSE Gather(g, address, i + 1, members, processed)

\* the outer loop "for (const address of uniqueAddresses)" from index i
RECURSIVE Group(_, _, _, _, _)
Group(g, i, clusters, processed, clusterId) ==
    IF i > Len(g.uniqueAddresses) THEN clusters
    ELSE LET address == g.uniqueAddresses[i]
         IN  IF address \in processed
             THEN Group(g, i + 1, clusters, processed, clusterId)
             ELSE LET r == Gather(g, address, 1, <<address>>,
                                  processed \cup {address})
                      c == [id        |-> clusterId,
                            label     |-> clusterId + 1,
                            addresses |-> r.clusterAddresses,
                            transactions |->
                               SumSeq([k \in DOMAIN r.clusterAddresses |->
                                   MapGet(g.addressInteractions,
                                          r.clusterAddresses[k])]),
                            volume    |->
                               SumSeq([k \in DOMAIN r.clusterAddresses |->
                                   MapGet(g.addressVolume, r.clusterAddresses[k])]),
                            suspiciousScore |->
                               detectCyclicTransfers(g, r.clusterAddresses),
                            relatedClusters |-> <<>>]
                  IN  Group(g, i + 1, Append(clusters, c),
                            r.processedAddresses, clusterId + 1)

\* Strength dividing by the size of the first cluster only
StrengthPerMember(g, ci, cj) ==
    LET connections ==
            Cardinality({p \in (DOMAIN ci.addresses) \X (DOMAIN cj.addresses) :
                cj.addresses[p[2]] \in
                    ConnGet(g.addressConnections, ci.addresses[p[1]])})
    IN  MinOne(Div(connections, Len(ci.addresses)))

\* connections / (|clusters[i]| * |clusters[j]|), capped at 1
Strength(g, ci, cj) ==
    LET connections ==
            Cardinality({p \in (DOMAIN ci.addresses) \X (DOMAIN cj.addresses) :
                cj.addresses[p[2]] \in
                    ConnGet(g.addressConnections, ci.addresses[p[1]])})
    IN  MinOne(Div(connections, Len(ci.addresses) * Len(cj.addresses)))

\* "Establish relationships between clusters"
Relate(g, clusters) ==
    [i \in DOMAIN clusters |->
        LET others == SelectSeq([j \in DOMAIN clusters |-> j], LAMBDA j :
                          j # i /\ Greater(Strength(g, clusters[i], clusters[j]), 10))
        IN  [clusters[i] EXCEPT !.relatedClusters =
                [k \in DOMAIN others |->
                    [id |-> clusters[others[k]].id,
                     strength |-> Strength(g, clusters[i], clusters[others[k]])]]]]

\* BuildClusters without "processedAddresses.add(centerAddress)"
BuildClustersCenterUnprocessed(g, transactions, centerAddress) ==
    LET center == [id        |-> 0,
                   label     |-> 0,
                   addresses |-> <<centerAddress>>,
                   transactions |-> Len(transactions),
                   volume    |-> SumSeq([i \in DOMAIN transactions |->
                                            transactions[i].amount]),
                   suspiciousScore |-> Fin(0, 1),
                   relatedClusters |-> <<>>]
    IN  Relate(g, Group(g, 1, <<center>>, {}, 1))

\* the statements after the fetches: lines 768-884
BuildClusters(g, transactions, centerAddress) ==
    LET center == [id        |-> 0,
                   label     |-> 0,
                   addresses |-> <<centerAddress>>,
                   transactions |-> Len(transactions),
                   volume    |-> SumSeq([i \in DOMAIN transactions |->
                                            transactions[i].amount]),
                   suspiciousScore |-> Fin(0, 1),
                   relatedClusters |-> <<>>]
    IN  Relate(g, Group(g, 1, <<center>>, {centerAddress}, 1))

----------------------------------------------------------------------------
(* One activation of clusterTransactions(centerAddress, depth) over a      *)
(* ledger.  fetchWalletTransactions(a, limit) resolves with the newest     *)
(* limit transactions that mention a, each reduced to its first transfer,  *)
(* or rejects once retryWithBackoff has given up.                          *)

CenterAddress == "X"

Depths == {1, 2, 3}

\* The transactions that may be on chain, newest first.  accounts are the
\* addresses whose history lists the transaction; source, destination and
\* amount are its first transfer ("" and 0 when it has none).
Chain ==
    << [signature |-> 1,  source |-> "X", destination |-> "A",
        amount |-> 5 * AmountUnit, accounts |-> {"X", "A"}],
       [signature |-> 2,  source |-> "B", destination |-> "X",
        amount |-> 3 * AmountUnit, accounts |-> {"X", "B"}],
       [signature |-> 3,  source |-> "A", destination |-> "B",
        amount |-> 2 * AmountUnit, accounts |-> {"X", "A", "B"}],
       [signature |-> 4,  source |-> "X", destination |-> "X",
        amount |-> 1 * AmountUnit, accounts |-> {"X", "A"}],
       [signature |-> 5,  source |-> "X", destination |-> "C",
        amount |-> 4 * AmountUnit, accounts |-> {"X", "C"}],
       [signature |-> 6,  source |-> "C", destination |-> "X",
        amount |-> 4 * AmountUnit, accounts |-> {"X", "C"}],
       [signature |-> 7,  source |-> "G", destination |-> "H",
        amount |-> 7 * AmountUnit, accounts |-> {"X", "G", "H"}],
       [signature |-> 8,  source |-> "", destination |-> "D",
        amount |-> 6 * AmountUnit, accounts |-> {"X", "D"}],
       [signature |-> 9,  source |-> "B", destination |-> "E",
        amount |-> 2 * AmountUnit, accounts |-> {"B", "E"}],
       [signature |-> 10, source |-> "", destination |-> "",
        amount |-> 0, accounts |-> {"X"}],
       [signature |-> 11, source |-> "C", destination |-> "A",
        amount |-> 3 * AmountUnit, accounts |-> {"A", "C"}],
       [signature |-> 12, source |-> "C", destination |-> "B",
        amount |-> 8 * AmountUnit, accounts |-> {"B", "C"}] >>

\* error.response.status of a fetch that retryWithBackoff gave up on
FetchErrors == {429, 500}

\* what fetchWalletTransactions(address, limit) resolves with
fetchWalletTransactions(address, limit) ==
    LET listed == Limit(SelectSeq(ledger, LAMBDA t : address \in t.accounts), limit)
    IN  [i \in DOMAIN listed |->
            [signature   |-> listed[i].signature,
             source      |-> listed[i].source,
             destination |-> listed[i].destination,
             amount      |-> listed[i].amount]]

NoFetch == [state |-> "none", error |-> 0]

\* the promise of a fetch: pending, then resolved or rejected with a status
Pending == [state |-> "pending", error |-> 0]

IdleRun ==
    [pc            |-> "idle",   \* idle, center, expand, done, failed
     depth         |-> 0,
     transactions  |-> <<>>,
     graph         |-> EmptyGraph,
     topAddresses  |-> <<>>,
     next          |-> 0,        \* index in topAddresses of the awaited fetch
     fetched       |-> <<>>,     \* the addresses fetchWalletTransactions was called for
     awaited       |-> NoFetch,  \* the promise of the last call
     clusters      |-> <<>>,     \* the resolved value
     error         |-> 0]        \* the rejection

ClusterIdle ==
    /\ ledger = <<>>
    /\ run = IdleRun

\* one more (older) transaction is on chain
AddTransfer ==
    /\ run.pc = "idle"
    /\ \E k \in DOMAIN Chain :
          /\ IF ledger = <<>> THEN TRUE
             ELSE Chain[k].signature > ledger[Len(ledger)].signature
          /\ ledger' = Append(ledger, Chain[k])
    /\ UNCHANGED <<run, notCluster>>

\* clusterTransactions is called and awaits the fetch for the center
StartCluster ==
    /\ run.pc = "idle"
    /\ \E depth \in Depths :
          run' = [run EXCEPT !.pc = "center", !.depth = depth,
                             !.fetched = <<CenterAddress>>,
                             !.awaited = Pending]
    /\ UNCHANGED <<ledger, notCluster>>

\* the run r has made its last fetch: cluster and return
Finish(r) ==
    [r EXCEPT !.pc = "done",
              !.clusters = BuildClusters(r.graph, r.transactions, CenterAddress)]

\* the run r calls the fetch for topAddresses[i], or finishes after the last
Expand(r, i) ==
    IF i <= Len(r.topAddresses)
    THEN [r EXCEPT !.pc = "expand", !.next = i,
                   !.fetched = Append(@, r.topAddresses[i]),
                   !.awaited = Pending]
    ELSE Finish(r)

\* the pending fetch settles: retryWithBackoff returns or gives up
LedgerAnswers ==
    /\ run.pc \in {"center", "expand"}
    /\ run.awaited.state = "pending"
    /\ \/ run' = [run EXCEPT !.awaited = [state |-> "resolved", error |-> 0]]
       \/ \E e \in FetchErrors :
             run' = [run EXCEPT !.awaited = [state |-> "rejected", error |-> e]]
    /\ UNCHANGED <<ledger, notCluster>>

\* clusterTransactions resumes with the center's transactions
CenterResolves ==
    /\ run.pc = "center"
    /\ run.awaited.state = "resolved"
    /\ LET transactions == fetchWalletTransactions(CenterAddress, 100)
           graph == FirstLevel(EmptyGraph, transactions, CenterAddress)
           r == [run EXCEPT !.transactions = transactions, !.graph = graph]
       IN  run' = IF run.depth > 1
                  THEN Expand([r EXCEPT !.topAddresses = TopAddresses(graph)], 1)
                  ELSE Finish(r)
    /\ UNCHANGED <<ledger, notCluster>>

\* clusterTransactions resumes with the transactions of topAddresses[next]
ExpansionResolves ==
    /\ run.pc = "expand"
    /\ run.awaited.state = "resolved"
    /\ LET secondLevelTxs ==
               fetchWalletTransactions(run.topAddresses[run.next], 20)
           r == [run EXCEPT !.graph = SecondLevel(@, secondLevelTxs)]
       IN  run' = Expand(r, run.next + 1)
    /\ UNCHANGED <<ledger, notCluster>>

\* Rethrow whose catch block returns the clusters of what was fetched so far
RethrowSwallowed ==
    /\ run.pc \in {"center", "expand"}
    /\ run.awaited.state = "rejected"
    /\ run' = Finish(run)
    /\ UNCHANGED <<ledger, notCluster>>

\* the awaited fetch has rejected: the catch block logs and rethrows
Rethrow ==
    /\ run.pc \in {"center", "expand"}
    /\ run.awaited.state = "rejected"
    /\ run' = [run EXCEPT !.pc = "failed", !.error = run.awaited.error]
    /\ UNCHANGED <<ledger, notCluster>>

NextCluster ==
    AddTransfer \/ StartCluster \/ LedgerAnswers \/ CenterResolves
        \/ ExpansionResolves \/ Rethrow

----------------------------------------------------------------------------
(* services/webacy.ts: the five category calls, getComprehensiveRiskAnalysis*)
(* and calculateOverallRiskScore.  Scores of the service are in hundredths. *)

Categories ==
    {"threatRisks", "sanctionChecks", "approvalRisks", "exposureRisk",
     "contractRisk"}

\* the value each get* function returns from its catch block
DefaultResponse(cat) ==
    CASE cat = "threatRisks"    -> [riskScore |-> 0, flags |-> <<>>, details |-> <<>>]
      [] cat = "sanctionChecks" -> [isSanctioned |-> FALSE, details |-> <<>>]
      [] cat = "approvalRisks"  -> [approvals |-> <<>>]
      [] cat = "exposureRisk"   -> [exposureScore |-> 0, riskExposures |-> <<>>]
      [] cat = "contractRisk"   -> [riskScore |-> 0, flags |-> <<>>, analysis |-> <<>>]

\* response.data the service may answer with
ServiceData(cat) ==
    CASE cat = "threatRisks" ->
            { [riskScore |-> 0, flags |-> <<"clean">>, details |-> <<>>],
              [riskScore |-> 40, flags |-> <<"mixer">>, details |-> <<>>],
              [riskScore |-> 150, flags |-> <<"hack">>, details |-> <<>>] }
      [] cat = "sanctionChecks" ->
            { [isSanctioned |-> TRUE, details |-> <<"OFAC">>],
              [isSanctioned |-> FALSE, details |-> <<"checked">>] }
      [] cat = "approvalRisks" ->
            { [approvals |-> << [spender |-> "S", riskScore |-> 50, flags |-> <<>>] >>],
              [approvals |-> << [spender |-> "S", riskScore |-> 20, flags |-> <<>>],
                                [spender |-> "T", riskScore |-> 100, flags |-> <<>>],
                                [spender |-> "U", riskScore |-> 0, flags |-> <<>>] >>] }
      [] cat = "exposureRisk" ->
            { [exposureScore |-> 70, riskExposures |-> <<"R">>],
              [exposureScore |-> 0, riskExposures |-> <<"none">>] }
      [] cat = "contractRisk" ->
            { [riskScore |-> 30, flags |-> <<"proxy">>, analysis |-> <<>>],
              [riskScore |-> 100, flags |-> <<"drain">>, analysis |-> <<>>] }

\* how webacyApi.post settles: [ok, data]
Answers(cat) ==
    {[ok |-> TRUE, data |-> d] : d \in ServiceData(cat)}
        \cup {[ok |-> FALSE, data |-> DefaultResponse(cat)]}

\* a get* function whose catch block rethrows
GetRethrowing(cat, answer) ==
    IF answer.ok THEN [thrown |-> FALSE, data |-> answer.data]
    ELSE [thrown |-> TRUE, data |-> DefaultResponse(cat)]

\* getThreatRisks, getSanctionChecks, getApprovalRisks, getExposureRisk and
\* getContractRisk after their await: response.data, or the default from the
\* catch block; none of them throws
GetCategory(cat, answer) ==
    IF answer.ok THEN [thrown |-> FALSE, data |-> answer.data]
    ELSE [thrown |-> FALSE, data |-> DefaultResponse(cat)]

\* Math.max(x, 0)
MaxZero(x) ==
    IF x.k = "nan" \/ x.k = "pinf" THEN x
    ELSE IF x.k = "ninf" \/ x.n < 0 THEN Fin(0, 1)
    ELSE x

\* calculateOverallRiskScore with the approvals summed, not averaged
calculateOverallRiskScoreSummed(data) ==
    LET approvals == data.approvalRisks.approvals
        s1 == Times(Fin(data.threatRisks.riskScore, 100), 30)
        s2 == Plus(s1, Times(Fin(IF data.sanctionChecks.isSanctioned THEN 1 ELSE 0, 1),
                             20))
        s3 == Plus(s2, Times(Div(SumSeq([i \in DOMAIN approvals |->
                                            approvals[i].riskScore]),
                                 100),
                             15))
        s4 == Plus(s3, Times(Fin(data.exposureRisk.exposureScore, 100), 20))
        s5 == Plus(s4, Times(Fin(data.contractRisk.riskScore, 100), 15))
    IN  MinOne(MaxZero(s5))

calculateOverallRiskScore(data) ==
    LET approvals == data.approvalRisks.approvals
        len == Len(approvals)
        s1 == Times(Fin(data.threatRisks.riskScore, 100), 30)
        s2 == Plus(s1, Times(Fin(IF data.sanctionChecks.isSanctioned THEN 1 ELSE 0, 1),
                             20))
        s3 == Plus(s2, Times(Div(SumSeq([i \in DOMAIN approvals |->
                                            approvals[i].riskScore]),
                                 100 * (IF len > 1 THEN len ELSE 1)),
                             15))
        s4 == Plus(s3, Times(Fin(data.exposureRisk.exposureScore, 100), 20))
        s5 == Plus(s4, Times(Fin(data.contractRisk.riskScore, 100), 15))
    IN  MinOne(MaxZero(s5))

NoCall == [state |-> "none", ok |-> FALSE, data |-> <<>>]

IdleRisk ==
    [pc      |-> "idle",    \* idle, awaiting, done
     calls   |-> [cat \in Categories |-> NoCall],   \* the five posts
     values  |-> [cat \in Categories |-> NoCall],   \* what the get* returned
     order   |-> <<>>,      \* the categories in the order their get* returned
     result  |-> <<>>]      \* the returned object

FusionIdle == risk = IdleRisk

\* getComprehensiveRiskAnalysis(address) starts the five calls and awaits
\* Promise.all of them
StartAnalysis ==
    /\ risk.pc = "idle"
    /\ risk' = [risk EXCEPT !.pc = "awaiting",
                   !.calls = [cat \in Categories |->
                                 [state |-> "pending", ok |-> FALSE, data |-> <<>>]]]
    /\ UNCHANGED notFusion

\* the post of one category settles
ServiceAnswers(cat) ==
    /\ risk.pc = "awaiting"
    /\ risk.calls[cat].state = "pending"
    /\ \E a \in Answers(cat) :
          risk' = [risk EXCEPT !.calls[cat] =
                      [state |-> "settled", ok |-> a.ok, data |-> a.data]]
    /\ UNCHANGED notFusion

\* the get* function of one category resumes and completes
CategoryReturns(cat) ==
    /\ risk.pc = "awaiting"
    /\ risk.calls[cat].state = "settled"
    /\ risk.values[cat].state = "none"
    /\ LET r == GetCategory(cat, risk.calls[cat])
       IN  risk' = [risk EXCEPT !.values[cat] =
                       [state |-> IF r.thrown THEN "rejected" ELSE "fulfilled",
                        ok |-> ~r.thrown, data |-> r.data],
                       !.order = Append(@, cat)]
    /\ UNCHANGED notFusion

\* getComprehensiveRiskAnalysis with Promise.race in place of Promise.all:
\* the try block resumes at the first category that returns
FuseAtFirst ==
    /\ risk.pc = "awaiting"
    /\ \E cat \in Categories : risk.values[cat].state = "fulfilled"
    /\ LET data == [cat \in Categories |->
                       IF risk.values[cat].state = "fulfilled"
                       THEN risk.values[cat].data ELSE DefaultResponse(cat)]
       IN  risk' = [risk EXCEPT !.pc = "done",
                       !.result =
                           [threatRisks    |-> data["threatRisks"],
                            sanctionChecks |-> data["sanctionChecks"],
                            approvalRisks  |-> data["approvalRisks"],
                            exposureRisk   |-> data["exposureRisk"],
                            contractRisk   |-> data["contractRisk"],
                            overallRiskScore |-> calculateOverallRiskScore(data)]]
    /\ UNCHANGED notFusion

\* Promise.all has settled: the rest of the try block, or the catch block
Fuse ==
    /\ risk.pc = "awaiting"
    /\ IF \E cat \in Categories : risk.values[cat].state = "rejected"
       THEN TRUE
       ELSE \A cat \in Categories : risk.values[cat].state = "fulfilled"
    /\ LET data == IF \E cat \in Categories : risk.values[cat].state = "rejected"
                   THEN [cat \in Categories |-> DefaultResponse(cat)]
                   ELSE [cat \in Categories |-> risk.values[cat].data]
       IN  risk' = [risk EXCEPT !.pc = "done",
                       !.result =
                           [threatRisks    |-> data["threatRisks"],
                            sanctionChecks |-> data["sanctionChecks"],
                            approvalRisks  |-> data["approvalRisks"],
                            exposureRisk   |-> data["exposureRisk"],
                            contractRisk   |-> data["contractRisk"],
                            overallRiskScore |->
                                IF \E cat \in Categories :
                                       risk.values[cat].state = "rejected"
                                THEN Fin(0, 1)
                                ELSE calculateOverallRiskScore(data)]]
    /\ UNCHANGED notFusion

NextFusion ==
    \/ StartAnalysis
    \/ \E cat \in Categories : ServiceAnswers(cat)
    \/ \E cat \in Categories : CategoryReturns(cat)
    \/ Fuse

----------------------------------------------------------------------------
(* services/solana.ts: identifyCriticalPaths(flows, params).  A flow is   *)
(* [from, to, amount]; addressGraph is a Map from an address to the Set of *)
(* the addresses it sent to, both kept as lists in insertion order.        *)

\* params.highValueThreshold || 10, in SOL
DefaultHighValueThreshold == 10

\* params.minFrequency || 3
DefaultMinFrequency == 3

\* `${flow.from}|${flow.to}` and path.split('|')
PathKey(flow) == <<flow.from, flow.to>>

\* the first forEach: pathFrequency and highValuePaths
HighValuePaths(fs, highValueThreshold) ==
    LET high == SelectSeq(fs, LAMBDA flow :
                    flow.amount >= highValueThreshold * AmountUnit)
    IN  [i \in DOMAIN high |-> [from |-> high[i].from, to |-> high[i].to]]

RECURSIVE PathFrequency(_, _)
PathFrequency(m, fs) ==
    IF fs = <<>> THEN m
    ELSE PathFrequency(MapAdd(m, PathKey(Head(fs)), 1), Tail(fs))

\* "for (const [path, count] of pathFrequency.entries())"
FrequentPaths(fs, minFrequency) ==
    LET hit == SelectSeq(PathFrequency(<<>>, fs),
                         LAMBDA e : e.val >= minFrequency)
    IN  [i \in DOMAIN hit |->
            [from |-> hit[i].key[1], to |-> hit[i].key[2], count |-> hit[i].val]]

\* addressGraph.get(a), as the list of a's neighbours in insertion order
GraphGet(g, a) == IF MapHas(g, a) THEN MapGet(g, a) ELSE <<>>

\* the second forEach: "Build graph"
RECURSIVE AddressGraph(_, _)
AddressGraph(g, fs) ==
    IF fs = <<>> THEN g
    ELSE LET flow == Head(fs)
         IN  AddressGraph(MapSet(g, flow.from,
                                 SetAdd(GraphGet(g, flow.from), flow.to)),
                          Tail(fs))

\* the finding pushed for a path, scored on the path and its closing hop
CircularFindingClosed(path) ==
    [addresses |-> path,
     reason    |-> "Circular fund flow detected",
     riskScore |-> MinOne(Fin(5 + Len(path) + 1, 10))]

\* the finding pushed for a path:
\* riskScore: Math.min(0.5 + (path.length * 0.1), 1)
CircularFinding(path) ==
    [addresses |-> path,
     reason    |-> "Circular fund flow detected",
     riskScore |-> MinOne(Fin(5 + Len(path), 10))]

\* the search with one visited set for the whole walk from start: what a
\* call finds, and the set as the call leaves it
RECURSIVE WalkSharedVisited(_, _, _, _, _)
WalkSharedVisited(g, start, current, visited, path) ==
    IF current \in visited
    THEN [found   |-> IF current = start /\ Len(path) > 2
                      THEN << CircularFinding(path) >> ELSE <<>>,
          visited |-> visited]
    ELSE LET neighbors == GraphGet(g, current)
             RECURSIVE each(_, _)
             each(i, acc) ==
                 IF i > Len(neighbors) THEN acc
                 ELSE LET r == WalkSharedVisited(g, start, neighbors[i],
                                                 acc.visited,
                                                 Append(path, current))
                      IN  each(i + 1, [found   |-> acc.found \o r.found,
                                       visited |-> r.visited])
         IN  each(1, [found |-> <<>>, visited |-> visited \cup {current}])

\* findCircularPaths handing the same visited set to every branch and
\* never taking an address out of it
findCircularPathsSharedVisited(g, start, current, visited, path) ==
    WalkSharedVisited(g, start, current, visited, path).found

\* findCircularPaths recording a finding at every revisit, the start or not
RECURSIVE findCircularPathsAnyRevisit(_, _, _, _, _)
findCircularPathsAnyRevisit(g, start, current, visited, path) ==
    IF current \in visited
    THEN IF Len(path) > 2
         THEN << CircularFinding(path) >> ELSE <<>>
    ELSE LET neighbors == GraphGet(g, current)
             RECURSIVE each(_)
             each(i) == IF i > Len(neighbors) THEN <<>>
                        ELSE findCircularPathsAnyRevisit(g, start, neighbors[i],
                                 visited \cup {current}, Append(path, current))
                             \o each(i + 1)
         IN  each(1)

\* findCircularPaths(start, current, visited, path): the findings it pushes,
\* in the order it pushes them.  Every recursive call works on its own
\* copies of visited and path.
RECURSIVE findCircularPaths(_, _, _, _, _)
findCircularPaths(g, start, current, visited, path) ==
    IF current \in visited
    THEN IF current = start /\ Len(path) > 2
         THEN << CircularFinding(path) >> ELSE <<>>
    ELSE LET neighbors == GraphGet(g, current)
             RECURSIVE each(_)
             each(i) ==
                 IF i > Len(neighbors) THEN <<>>
                 ELSE findCircularPaths(g, start, neighbors[i],
                                        visited \cup {current},
                                        Append(path, current))
                          \o each(i + 1)
         IN  each(1)

\* the greatest of a set of naturals, 0 for the empty set
Greatest(S) == IF S = {} THEN 0 ELSE CHOOSE m \in S : \A n \in S : n <= m

\* the nesting with a walk that adds nothing to visited and returns once the
\* path holds 10 addresses
RECURSIVE findCircularPathsDepthCapped(_, _, _, _)
findCircularPathsDepthCapped(g, current, visited, path) ==
    IF current \in visited \/ Len(path) >= 10
    THEN 1
    ELSE LET neighbors == GraphGet(g, current)
         IN  1 + Greatest({findCircularPathsDepthCapped(g, neighbors[i],
                               visited, Append(path, current)) :
                           i \in DOMAIN neighbors})

\* how deep the calls of findCircularPaths nest below one call, itself
\* counted: a call on a visited address returns at once, any other recurses
\* into every neighbour with the address added to visited and to the path
RECURSIVE findCircularPathsDepth(_, _, _, _)
findCircularPathsDepth(g, current, visited, path) ==
    IF current \in visited
    THEN 1
    ELSE LET neighbors == GraphGet(g, current)
         IN  1 + Greatest({findCircularPathsDepth(g, neighbors[i],
                               visited \cup {current}, Append(path, current)) :
                           i \in DOMAIN neighbors})

\* "for (const address of addressGraph.keys())"
SuspiciousPatterns(fs) ==
    LET g == AddressGraph(<<>>, fs)
        RECURSIVE from(_)
        from(i) == IF i > Len(g) THEN <<>>
                   ELSE findCircularPaths(g, g[i].key, g[i].key, {}, <<>>)
                            \o from(i + 1)
    IN  from(1)

identifyCriticalPaths(fs, params) ==
    [highValuePaths     |-> HighValuePaths(fs, params.highValueThreshold),
     frequentPaths      |-> FrequentPaths(fs, params.minFrequency),
     suspiciousPatterns |-> IF params.includeCircular
                            THEN SuspiciousPatterns(fs) ELSE <<>>]

----------------------------------------------------------------------------
(* One call of identifyCriticalPaths over the flows of a fetched window.   *)
(* fetchTransactionFlow keeps only transfers with a source, a destination  *)
(* and a non-zero amount.                                                  *)

\* the flows a window may hold, in the order the fetch lists them
FlowChain ==
    << [from |-> "A", to |-> "B", amount |-> 1 * AmountUnit],
       [from |-> "B", to |-> "C", amount |-> 20 * AmountUnit],
       [from |-> "C", to |-> "D", amount |-> 2 * AmountUnit],
       [from |-> "D", to |-> "A", amount |-> 10 * AmountUnit],
       [from |-> "C", to |-> "A", amount |-> 3 * AmountUnit],
       [from |-> "B", to |-> "A", amount |-> 1 * AmountUnit],
       [from |-> "A", to |-> "A", amount |-> 5 * AmountUnit],
       [from |-> "D", to |-> "E", amount |-> 9 * AmountUnit + 9],
       [from |-> "E", to |-> "A", amount |-> 4 * AmountUnit],
       [from |-> "A", to |-> "B", amount |-> 2 * AmountUnit],
       [from |-> "A", to |-> "B", amount |-> 3 * AmountUnit],
       [from |-> "E", to |-> "F", amount |-> 1],
       [from |-> "F", to |-> "A", amount |-> 12 * AmountUnit] >>

\* the params objects a caller passes: none, or includeCircular: false
ParamChoices ==
    { [highValueThreshold |-> DefaultHighValueThreshold,
       minFrequency |-> DefaultMinFrequency, includeCircular |-> TRUE],
      [highValueThreshold |-> DefaultHighValueThreshold,
       minFrequency |-> DefaultMinFrequency, includeCircular |-> FALSE] }

NoPaths ==
    [highValuePaths |-> <<>>, frequentPaths |-> <<>>, suspiciousPatterns |-> <<>>]

FlowIdle ==
    /\ flows = <<>>
    /\ flowParams = [highValueThreshold |-> DefaultHighValueThreshold,
                     minFrequency |-> DefaultMinFrequency,
                     includeCircular |-> TRUE]
    /\ criticalPaths = NoPaths
    /\ fpc = "build"

\* the window holds one more flow, signed with its place in FlowChain
AddFlow ==
    /\ fpc = "build"
    /\ \E k \in DOMAIN FlowChain :
          /\ IF flows = <<>> THEN TRUE ELSE k > flows[Len(flows)].signature
          /\ flows' = Append(flows, [signature |-> k,
                                     from      |-> FlowChain[k].from,
                                     to        |-> FlowChain[k].to,
                                     amount    |-> FlowChain[k].amount])
    /\ UNCHANGED <<flowParams, criticalPaths, fpc, notFlow>>

\* identifyCriticalPaths(flows, params)
Identify ==
    /\ fpc = "build"
    /\ \E params \in ParamChoices :
          /\ flowParams' = params
          /\ criticalPaths' = identifyCriticalPaths(flows, params)
    /\ fpc' = "done"
    /\ UNCHANGED <<flows, notFlow>>

NextFlow == AddFlow \/ Identify

----------------------------------------------------------------------------
(* Pattern analysis of one focal address (components/PatternAnalysis.tsx): *)
(* the transfers are fetched, detectTransactionPatterns runs over them,    *)
(* then generateRiskReport runs over a second fetch and a pattern list.    *)

FocalAddress == "X"

\* The transfers the ledger may hold for the focal address.  The RPC lists
\* signatures newest first, so a fetched list never rises in blockTime.
TxKinds ==
    { [blockTime |-> 7300, amount |-> 2500 * AmountUnit,
       source |-> "A", destination |-> "A"],
      [blockTime |-> 7200, amount |-> 1 * AmountUnit,
       source |-> "X", destination |-> "A"],
      [blockTime |-> 7199, amount |-> 12 * AmountUnit,
       source |-> "A", destination |-> "X"],
      [blockTime |-> 3600, amount |-> 2 * AmountUnit + 1,
       source |-> "X", destination |-> "B"],
      [blockTime |-> 3599, amount |-> 0,
       source |-> "", destination |-> ""],
      [blockTime |-> 0, amount |-> 3 * AmountUnit,
       source |-> "C", destination |-> "X"] }

\* Pattern lists a caller may hand to generateRiskReport besides the detected one
OtherPatternLists ==
    { << [type |-> "LAYERING", severity |-> "low", confidence |-> 100,
          transactions |-> <<>>, metadata |-> <<>>] >>,
      << [type |-> "WASH_TRADING", severity |-> "high", confidence |-> 100,
          transactions |-> <<>>, metadata |-> <<>>],
         [type |-> "LAYERING", severity |-> "medium", confidence |-> 0,
          transactions |-> <<>>, metadata |-> <<>>] >> }

NoReport ==
    [overallRiskScore |-> Fin(0, 1), patterns |-> <<>>, riskFactors |-> <<>>,
     recommendations |-> <<>>]

PatternIdle ==
    /\ txs = <<>>
    /\ patterns = <<>>
    /\ report = NoReport
    /\ ppc = "build"

\* the ledger holds one more (older) transfer of the focal address
AddTx ==
    /\ ppc = "build"
    /\ Len(txs) < MaxTxs
    /\ \E k \in TxKinds :
          /\ IF txs = <<>> THEN TRUE
             ELSE k.blockTime <= txs[Len(txs)].blockTime
          /\ txs' = Append(txs, [signature   |-> Len(txs) + 1,
                                 blockTime   |-> k.blockTime,
                                 amount      |-> k.amount,
                                 source      |-> k.source,
                                 destination |-> k.destination])
    /\ UNCHANGED <<patterns, report, ppc, notPattern>>

\* detectTransactionPatterns(address), fetch limit 1000
Detect ==
    /\ ppc = "build"
    /\ patterns' = detectTransactionPatterns(Limit(txs, 1000), FocalAddress)
    /\ ppc' = "detected"
    /\ UNCHANGED <<txs, report, notPattern>>

\* generateRiskReport(address, patterns), fetch limit 100
Report ==
    /\ ppc = "detected"
    /\ \E ps \in {patterns} \cup OtherPatternLists :
          report' = generateRiskReport(Limit(txs, 100), ps)
    /\ ppc' = "reported"
    /\ UNCHANGED <<txs, patterns, notPattern>>

NextPattern == AddTx \/ Detect \/ Report

----------------------------------------------------------------------------
(* Specifications *)

Init == PatternIdle /\ RetryIdle /\ ClusterIdle /\ FusionIdle /\ FlowIdle

SpecPattern == Init /\ [][NextPattern]_vars

SpecRetry == Init /\ [][NextRetry]_vars

SpecCluster == Init /\ [][NextCluster]_vars

SpecFusion == Init /\ [][NextFusion]_vars

SpecFlow == Init /\ [][NextFlow]_vars

Next == NextPattern \/ NextRetry \/ NextCluster \/ NextFusion \/ NextFlow

Spec == Init /\ [][Next]_vars

----------------------------------------------------------------------------
(* Properties of the pattern heuristics *)

Detected == ppc # "build"

PatternsOfType(t) == {i \in DOMAIN patterns : patterns[i].type = t}

\* the transfers whose amount is a non-zero whole number
RoundTransfers == {i \in DOMAIN txs : txs[i].amount # 0 /\ txs[i].amount % AmountUnit = 0}

\* the number of transfers in the hour-of-epoch bucket h
BucketCount(h) ==
    Cardinality({i \in DOMAIN txs : (txs[i].blockTime * 1000) \div 3600000 = h})

Buckets == {(txs[i].blockTime * 1000) \div 3600000 : i \in DOMAIN txs}

\* C2 as stated: WASH_TRADING is emitted if and only if one single whole
\* amount appears in at least 3 transfers.
C2_WashIffOneAmountThrice ==
    Detected =>
        (PatternsOfType("WASH_TRADING") # {}
            <=> \E i \in RoundTransfers :
                    Cardinality({j \in RoundTransfers :
                                    txs[j].amount = txs[i].amount}) >= 3)

\* C2 amended: WASH_TRADING is emitted if and only if at least 3 transfers
\* carry a non-zero whole amount, whether or not the amounts are equal.
C2_WashIffThreeRoundTransfers ==
    Detected =>
        (PatternsOfType("WASH_TRADING") # {} <=> Cardinality(RoundTransfers) >= 3)

\* three whole amounts, no one of them three times, and the pattern is emitted
C2_Witness ==
    /\ Detected
    /\ PatternsOfType("WASH_TRADING") # {}
    /\ Cardinality(RoundTransfers) = 3
    /\ \A i, j \in RoundTransfers : i # j => txs[i].amount # txs[j].amount

\* C3: RAPID_SUCCESSION is emitted if and only if some hour bucket holds at
\* least 5 transfers, and the pattern of a bucket is high exactly when the
\* bucket holds more than 10 transfers, medium otherwise.
C3_RapidIffBucketOfFive ==
    Detected =>
        /\ PatternsOfType("RAPID_SUCCESSION") # {}
              <=> \E h \in Buckets : BucketCount(h) >= 5
        /\ \A i \in PatternsOfType("RAPID_SUCCESSION") :
              /\ patterns[i].severity \in {"high", "medium"}
              /\ patterns[i].severity = "high"
                    <=> BucketCount(patterns[i].metadata.hour) > 10

\* a bucket of more than 10 transfers has been reported, as high
C3_Witness ==
    /\ Detected
    /\ \E i \in PatternsOfType("RAPID_SUCCESSION") :
          patterns[i].severity = "high" /\ BucketCount(patterns[i].metadata.hour) = 11

\* C4 as stated: the returned list never holds two patterns of the same type.
C4_NoTwoPatternsOfOneType ==
    Detected =>
        \A i, j \in DOMAIN patterns : i # j => patterns[i].type # patterns[j].type

\* C4 amended: the circular, wash and layering heuristics contribute at most
\* one pattern each; rapid succession contributes exactly one pattern for
\* every hour bucket of at least 5 transfers, so several when several qualify.
C4_OnePerHeuristicOrBucket ==
    Detected =>
        /\ \A t \in {"CIRCULAR_TRADING", "WASH_TRADING", "LAYERING"} :
              Cardinality(PatternsOfType(t)) <= 1
        /\ \A i \in DOMAIN patterns :
              patterns[i].type \in {"RAPID_SUCCESSION", "CIRCULAR_TRADING",
                                    "WASH_TRADING", "LAYERING"}
        /\ \A h \in Buckets :
              Cardinality({i \in PatternsOfType("RAPID_SUCCESSION") :
                              patterns[i].metadata.hour = h})
                 = IF BucketCount(h) >= 5 THEN 1 ELSE 0

\* two buckets qualify and two RAPID_SUCCESSION patterns are returned
C4_Witness ==
    /\ Detected
    /\ Cardinality(PatternsOfType("RAPID_SUCCESSION")) = 2
    /\ Cardinality({h \in Buckets : BucketCount(h) >= 5}) = 2

\* C5: generateRiskReport's four factor scores and its overall score lie in
\* [0,1] for every transfer list, the empty one included.
C5_ReportScoresInUnit ==
    ppc = "reported" =>
        /\ \A i \in DOMAIN report.riskFactors : InUnit(report.riskFactors[i])
        /\ InUnit(report.overallRiskScore)

----------------------------------------------------------------------------
(* Properties of the ledger client's pacing and retry *)

\* C6: the starts of any two fetches issued through retryWithBackoff, by
\* whichever callers and attempts, lie at least RATE_LIMIT_DELAY ms apart.
C6_MinimumRequestSpacing == minGap >= 500

BackoffWaits == <<1000, 2000, 4000>>

\* C7: only a failure with status 429 is retried: every attempt that was
\* followed by a wait or another attempt failed with 429, and any other error
\* is thrown to the caller by the attempt that met it, without a wait.
C7_RetryOnlyOnRateLimit ==
    \A c \in Callers :
        LET st == callers[c]
            n  == Len(st.settled)
        IN  /\ \A i \in 1..(n - 1) : st.settled[i] = 429
            /\ st.pc \in {"pacing", "fetching", "backoff"} =>
                  \A i \in 1..n : st.settled[i] = 429
            /\ (n > 0 /\ st.settled[n] \notin {200, 429}) =>
                  /\ st.pc = "thrown"
                  /\ st.result.status = st.settled[n]
                  /\ st.attempts = n
                  /\ Len(st.waits) = n - 1

\* an error other than 429 met on a retry has been thrown
C7_Witness ==
    \E c \in Callers :
        /\ callers[c].pc = "thrown"
        /\ callers[c].settled = <<429, 500>>
        /\ callers[c].waits = <<1000>>

\* C8: fn is attempted at most 1 + MAX_RETRIES = 4 times, the waits between
\* attempts are 1000, 2000 and 4000 ms, rateLimit runs before every attempt,
\* the 429 of the last attempt is thrown to the caller, and a successful
\* attempt ends the sequence with its result.
C8_BoundedBackoff ==
    \A c \in Callers :
        LET st == callers[c]
        IN  /\ st.attempts <= 4
            /\ Len(st.waits) <= 3
            /\ \A i \in DOMAIN st.waits : st.waits[i] = BackoffWaits[i]
            /\ st.paced = st.attempts + (IF st.pc = "pacing" THEN 1 ELSE 0)
            /\ st.pc = "backoff" => Len(st.waits) = st.attempts
            /\ st.pc \in {"returned", "thrown"} =>
                  Len(st.waits) = st.attempts - 1 /\ Len(st.settled) = st.attempts
            /\ Len(st.settled) = 4 => st.pc \in {"returned", "thrown"}
            /\ (st.pc = "thrown" /\ st.result.status = 429) =>
                  st.attempts = 4 /\ st.waits = BackoffWaits
            /\ st.pc = "returned" =>
                  st.result.ok /\ st.settled[Len(st.settled)] = 200
            /\ st.pc = "thrown" =>
                  ~st.result.ok /\ st.settled[Len(st.settled)] = st.result.status

\* the source answered 429 four times and the caller got the error
C8_Witness ==
    \E c \in Callers :
        /\ callers[c].pc = "thrown"
        /\ callers[c].settled = <<429, 429, 429, 429>>
        /\ callers[c].waits = <<1000, 2000, 4000>>
        /\ callers[c].paced = 4

----------------------------------------------------------------------------
(* Properties of clusterTransactions *)

\* every transaction the run was handed by its fetches
Handed ==
    UNION {Range(fetchWalletTransactions(run.fetched[i],
                                         IF i = 1 THEN 100 ELSE 20)) :
              i \in DOMAIN run.fetched}

\* the addresses seen as an end of a handed transfer, and the center
Observed ==
    {CenterAddress} \cup ({t.source : t \in Handed} \ {""})
                    \cup ({t.destination : t \in Handed} \ {""})

ClustersOf(a) ==
    {i \in DOMAIN run.clusters :
        \E k \in DOMAIN run.clusters[i].addresses :
            run.clusters[i].addresses[k] = a}

\* C1: the returned clusters partition the observed addresses, no cluster is
\* empty, and the center is the only member of the cluster 'center'.
C1_ClustersPartitionObserved ==
    run.pc = "done" =>
        /\ \A a \in Observed : Cardinality(ClustersOf(a)) = 1
        /\ \A i \in DOMAIN run.clusters :
              LET m == run.clusters[i].addresses
              IN  /\ Len(m) > 0
                  /\ Range(m) \subseteq Observed
                  /\ \A k, l \in DOMAIN m : k # l => m[k] # m[l]
        /\ {i \in DOMAIN run.clusters : run.clusters[i].id = 0} = {1}
        /\ run.clusters[1].addresses = <<CenterAddress>>

\* an expansion has handed the center back among its transfers, and the
\* result has the center alone, a cluster of several members and a third
C1_Witness ==
    /\ run.pc = "done"
    /\ run.depth > 1
    /\ \E i \in DOMAIN run.graph.uniqueAddresses :
          run.graph.uniqueAddresses[i] = CenterAddress
    /\ Len(run.clusters) >= 3
    /\ \E i \in DOMAIN run.clusters : Len(run.clusters[i].addresses) >= 2

\* C10: when a fetch of the run has failed, the run rejects with that very
\* error, returns no cluster list and issues no further fetch.
C10_FetchFailureRejects ==
    [][ /\ (run.pc \in {"center", "expand"} /\ run.awaited.state = "rejected") =>
              /\ run'.pc = "failed"
              /\ run'.error = run.awaited.error
              /\ run'.clusters = <<>>
              /\ run'.fetched = run.fetched
        /\ run.pc = "failed" => run' = run ]_vars

\* an expansion fetch failed while other top addresses were still to fetch
C10_Witness ==
    /\ run.pc = "failed"
    /\ run.error = 500
    /\ Len(run.fetched) = 2
    /\ Len(run.topAddresses) >= 3
    /\ run.clusters = <<>>

----------------------------------------------------------------------------
(* Properties of the external risk fusion *)

\* the weighted sum of the returned categories, times 10000 * approvals
WeightedSum(r) ==
    LET a == r.approvalRisks.approvals
        l == IF Len(a) = 0 THEN 1 ELSE Len(a)
    IN  [n |-> 30 * l * r.threatRisks.riskScore
               + 20 * l * (IF r.sanctionChecks.isSanctioned THEN 100 ELSE 0)
               + 15 * SumSeq([i \in DOMAIN a |-> a[i].riskScore])
               + 20 * l * r.exposureRisk.exposureScore
               + 15 * l * r.contractRisk.riskScore,
         d |-> 10000 * l]

\* C9: every failed category call is replaced by its zero-risk default, every
\* successful one keeps the fetched value, the analysis returns the weighted
\* overall score of those values, and that score is 0 when all five failed.
C9_PartialFailureIsolation ==
    /\ risk.pc = "awaiting" =>
          \A cat \in Categories : risk.values[cat].state # "rejected"
    /\ risk.pc = "done" =>
          /\ \A cat \in Categories :
                /\ risk.calls[cat].state = "settled"
                /\ risk.result[cat] =
                      IF risk.calls[cat].ok THEN risk.calls[cat].data
                      ELSE DefaultResponse(cat)
          /\ LET w == WeightedSum(risk.result)
                 o == risk.result.overallRiskScore
             IN  /\ o.k = "fin"
                 /\ IF w.n > w.d THEN o.n = o.d ELSE o.n * w.d = w.n * o.d
          /\ (\A cat \in Categories : ~risk.calls[cat].ok) =>
                risk.result.overallRiskScore = Fin(0, 1)

\* two categories failed, three answered, and the score is between 0 and 1
C9_Witness ==
    /\ risk.pc = "done"
    /\ ~risk.calls["threatRisks"].ok
    /\ ~risk.calls["exposureRisk"].ok
    /\ risk.calls["sanctionChecks"].ok
    /\ risk.calls["approvalRisks"].ok
    /\ risk.calls["contractRisk"].ok
    /\ risk.result.overallRiskScore.n > 0
    /\ risk.result.overallRiskScore.n < risk.result.overallRiskScore.d

\* the signatures of the transfers of the hour-of-epoch bucket h
BucketSignatures(h) ==
    {txs[i].signature : i \in {j \in DOMAIN txs :
                                  (txs[j].blockTime * 1000) \div 3600000 = h}}

\* C15: every hour bucket that triggers RAPID_SUCCESSION has a pattern of
\* confidence 0.8 whose evidence is exactly the signatures of the transfers
\* of that bucket, each once, so metadata.count is the evidence length; a
\* bucket of 6 transfers gives a medium pattern with all 6 signatures.
C15_RapidEvidenceIsTheBucket ==
    Detected =>
        /\ \A h \in Buckets : BucketCount(h) >= 5 =>
              \E i \in PatternsOfType("RAPID_SUCCESSION") :
                  patterns[i].metadata.hour = h
        /\ \A i \in PatternsOfType("RAPID_SUCCESSION") :
              LET p == patterns[i]
              IN  /\ p.confidence = 80
                  /\ Range(p.transactions) = BucketSignatures(p.metadata.hour)
                  /\ Len(p.transactions) = Cardinality(Range(p.transactions))
                  /\ p.metadata.count = Len(p.transactions)
                  /\ BucketCount(p.metadata.hour) = 6 =>
                        /\ p.severity = "medium"
                        /\ Len(p.transactions) = 6

\* a bucket of 6 transfers has been reported while another bucket holds
\* transfers that are not part of the evidence
C15_Witness ==
    /\ Detected
    /\ \E i \in PatternsOfType("RAPID_SUCCESSION") :
          /\ BucketCount(patterns[i].metadata.hour) = 6
          /\ Len(patterns[i].transactions) = 6
          /\ \E h \in Buckets : h # patterns[i].metadata.hour

----------------------------------------------------------------------------
(* Properties of the fused score as a function of its five inputs *)

\* x <= y for two finite scores
LessEq(x, y) == x.k = "fin" /\ y.k = "fin" /\ x.n * y.d <= y.n * x.d

\* the number one category contributes before weighting
CategoryInput(cat, d) ==
    CASE cat = "threatRisks"    -> Fin(d.riskScore, 100)
      [] cat = "sanctionChecks" -> Fin(IF d.isSanctioned THEN 1 ELSE 0, 1)
      [] cat = "approvalRisks"  ->
            Fin(SumSeq([i \in DOMAIN d.approvals |-> d.approvals[i].riskScore]),
                100 * (IF Len(d.approvals) > 1 THEN Len(d.approvals) ELSE 1))
      [] cat = "exposureRisk"   -> Fin(d.exposureScore, 100)
      [] cat = "contractRisk"   -> Fin(d.riskScore, 100)

\* every response one category can carry into the fusion
CategoryData(cat) == ServiceData(cat) \cup {DefaultResponse(cat)}

\* the five responses of the finished analysis
FusedData == [cat \in Categories |-> risk.result[cat]]

\* the fused responses with the response of one category replaced
Replaced(cat, d) == [FusedData EXCEPT ![cat] = d]

\* C12: with the other four categories held fixed, a response that raises
\* one category's input never lowers the overall score, one that lowers it
\* never raises the score, and the score always lies in [0,1].
C12_OverallScoreMonotonic ==
    risk.pc = "done" =>
        /\ InUnit(risk.result.overallRiskScore)
        /\ \A cat \in Categories : \A d \in CategoryData(cat) :
              LET other == calculateOverallRiskScore(Replaced(cat, d))
                  here  == CategoryInput(cat, FusedData[cat])
                  there == CategoryInput(cat, d)
              IN  /\ InUnit(other)
                  /\ LessEq(here, there)
                        => LessEq(risk.result.overallRiskScore, other)
                  /\ LessEq(there, here)
                        => LessEq(other, risk.result.overallRiskScore)

\* an analysis whose score lies strictly inside (0,1) and strictly rises
\* when the mean approval risk alone is raised
C12_Witness ==
    /\ risk.pc = "done"
    /\ ~LessEq(risk.result.overallRiskScore, Fin(0, 1))
    /\ ~LessEq(Fin(1, 1), risk.result.overallRiskScore)
    /\ \E d \in CategoryData("approvalRisks") :
          /\ ~LessEq(CategoryInput("approvalRisks", d),
                     CategoryInput("approvalRisks", FusedData["approvalRisks"]))
          /\ ~LessEq(calculateOverallRiskScore(Replaced("approvalRisks", d)),
                     risk.result.overallRiskScore)

----------------------------------------------------------------------------
(* Properties of the fan-out of getComprehensiveRiskAnalysis *)

\* what a category contributes, read off the settled post alone
Contribution(cat) ==
    IF risk.calls[cat].ok THEN risk.calls[cat].data ELSE DefaultResponse(cat)

\* C18: the five posts are all in flight before the analysis awaits any of
\* them; the result is written once, in a step taken when all five get*
\* functions have returned, and never again; and the overall score is the
\* clamped weighted sum of the five contributions whatever order the five
\* returned in.
C18_FanOutThenFuseOnce ==
    /\ [](risk.pc # "idle" =>
            \A cat \in Categories : risk.calls[cat].state # "none")
    /\ [](risk.result # <<>> => risk.pc = "done" /\ Len(risk.order) = 5)
    /\ [][/\ risk'.result # risk.result =>
                /\ risk.result = <<>>
                /\ \A cat \in Categories :
                      /\ risk.calls[cat].state = "settled"
                      /\ risk.values[cat].state # "none"
          /\ risk.pc = "done" => risk' = risk]_vars
    /\ [](risk.pc = "done" =>
            LET w == WeightedSum([cat \in Categories |-> Contribution(cat)])
                o == risk.result.overallRiskScore
            IN  /\ o.k = "fin"
                /\ IF w.n > w.d THEN o.n = o.d ELSE o.n * w.d = w.n * o.d)

\* the analysis has finished after the five categories returned in the
\* reverse of the order they were called in
C18_Witness ==
    /\ risk.pc = "done"
    /\ risk.order = <<"contractRisk", "exposureRisk", "approvalRisks",
                      "sanctionChecks", "threatRisks">>
    /\ risk.result.overallRiskScore.n > 0
    /\ risk.result.overallRiskScore.n < risk.result.overallRiskScore.d

----------------------------------------------------------------------------
(* Properties of the expansion round of clusterTransactions *)

\* the p-th endpoint of the center's transactions: source, then destination
EndAt(p) ==
    LET tx == run.transactions[(p + 1) \div 2]
    IN  IF p % 2 = 1 THEN tx.source ELSE tx.destination

EndPositions == 1 .. (2 * Len(run.transactions))

\* the addresses the center's transactions name besides the center
FirstLevelAddresses == {EndAt(p) : p \in EndPositions} \ {"", CenterAddress}

FirstLevelCount(a) == Cardinality({p \in EndPositions : EndAt(p) = a})

FirstSeen(a) == CHOOSE p \in EndPositions :
                    /\ EndAt(p) = a
                    /\ \A q \in EndPositions : EndAt(q) = a => p <= q

\* a is expanded before b: more first-level interactions, or as many and
\* seen first
ExpandedBefore(a, b) ==
    \/ FirstLevelCount(a) > FirstLevelCount(b)
    \/ /\ FirstLevelCount(a) = FirstLevelCount(b)
       /\ FirstSeen(a) < FirstSeen(b)

ExpansionRank(a) ==
    Cardinality({b \in FirstLevelAddresses : ExpandedBefore(b, a)}) + 1

----------------------------------------------------------------------------
(* Properties of the grouping step of clusterTransactions *)

\* N(a): the other ends of the handed transfers that have a as an end
Neighbours(a) ==
    ({t.destination : t \in {u \in Handed : u.source = a}}
        \cup {t.source : t \in {u \in Handed : u.destination = a}}) \ {""}

\* the members of the clusters seeded before the cluster c
AssignedBefore(c) ==
    UNION {Range(run.clusters[i].addresses) : i \in 1 .. (c - 1)}

\* the test of b against the seed a
OverlapAdmits(a, b) ==
    /\ Cardinality(Neighbours(a)) > 0
    /\ 10 * Cardinality(Neighbours(a) \cap Neighbours(b))
          > 3 * Cardinality(Neighbours(a))

\* C20: the first member a of every cluster but the center's is its seed;
\* an observed address b other than the center and a is a member of that
\* cluster if and only if it was in no earlier cluster, N(a) is not empty
\* and more than 0.3 of N(a) lies in N(b); and no address is in two clusters.
C20_JoinIffOverlapWithSeed ==
    run.pc = "done" =>
        /\ \A c \in 2 .. Len(run.clusters) :
              LET a == run.clusters[c].addresses[1]
              IN  /\ a \notin AssignedBefore(c)
                  /\ \A b \in Observed \ {CenterAddress, a} :
                        b \in Range(run.clusters[c].addresses)
                           <=> /\ b \notin AssignedBefore(c)
                               /\ OverlapAdmits(a, b)
        /\ \A b \in Observed : Cardinality(ClustersOf(b)) <= 1

\* a seed has gathered an address that shares only a part of the seed's
\* neighbours and has fewer common neighbours than 0.3 of its own, and
\* has left out an address that was still unassigned
C20_Witness ==
    /\ run.pc = "done"
    /\ \E c \in 2 .. Len(run.clusters) :
          LET a == run.clusters[c].addresses[1]
          IN  /\ \E b \in Range(run.clusters[c].addresses) \ {a} :
                    /\ Neighbours(a) \cap Neighbours(b) # Neighbours(a)
                    /\ 10 * Cardinality(Neighbours(a) \cap Neighbours(b))
                          <= 3 * Cardinality(Neighbours(b))
              /\ \E b \in Observed \ {CenterAddress} :
                    /\ b \notin AssignedBefore(c + 1)

----------------------------------------------------------------------------
(* Scenario B: a center whose three counterparties all interact with each *)
(* other                                                                   *)

\* the transfers handed by the i-th fetch of the run
HandedBy(i) ==
    fetchWalletTransactions(run.fetched[i], IF i = 1 THEN 100 ELSE 20)

\* how often a was recorded as an end of a handed transfer: once per end
\* and per fetch that handed it
InteractionCount(a) ==
    Cardinality({f \in {<<i, k, e>> : i \in DOMAIN run.fetched,
                                      k \in 1 .. Len(ledger),
                                      e \in {"source", "destination"}} :
                    /\ f[2] \in DOMAIN HandedBy(f[1])
                    /\ HandedBy(f[1])[f[2]][f[3]] = a})

Counterparties == Observed \ {CenterAddress}

\* the center interacts with three addresses and these three with each other
ScenarioB ==
    /\ run.pc = "done"
    /\ Cardinality(Counterparties) = 3
    /\ \A b \in Counterparties :
          /\ CenterAddress \in Neighbours(b)
          /\ Counterparties \ {b} \subseteq Neighbours(b)

SumOver(S) ==
    LET RECURSIVE sum(_)
        sum(T) == IF T = {} THEN 0
                  ELSE LET x == CHOOSE y \in T : TRUE
                       IN  InteractionCount(x) + sum(T \ {x})
    IN  sum(S)

\* C13 as stated: in scenario B the result has a cluster of 4 members, the
\* center and its three counterparties, whose transactions count is the
\* sum of the four addresses' interaction counts.
C13_OneClusterOfFour ==
    ScenarioB =>
        \E c \in DOMAIN run.clusters :
            /\ Len(run.clusters[c].addresses) = 4
            /\ Range(run.clusters[c].addresses) = Observed
            /\ run.clusters[c].transactions = SumOver(Observed)

\* C13 amended: in scenario B the result is the cluster 'center' holding the
\* center alone, followed by one cluster holding the three counterparties,
\* whose transactions count is the sum of the three counterparties'
\* interaction counts.
C13_CenterAloneAndClusterOfThree ==
    ScenarioB =>
        /\ Len(run.clusters) = 2
        /\ run.clusters[1].id = 0
        /\ run.clusters[1].addresses = <<CenterAddress>>
        /\ Len(run.clusters[2].addresses) = 3
        /\ Range(run.clusters[2].addresses) = Counterparties
        /\ run.clusters[2].transactions = SumOver(Counterparties)

\* scenario B has been clustered
C13_Witness ==
    /\ ScenarioB
    /\ Len(run.clusters) = 2
    /\ run.clusters[2].transactions >= 6

----------------------------------------------------------------------------
(* Properties of the state shared by concurrent requests *)

\* C16: no variable written while serving one request is read or written
\* while serving another: whenever a caller's fetch reads or writes
\* lastRequestTime, the value it meets was written by that caller or is
\* still the initial one.
C16_NoSharedMutableState == ~access.foreign

----------------------------------------------------------------------------
(* Properties of the heuristics under a reordering of the transfers *)

\* the bijections of 1..n
Bijections(n) ==
    {f \in [1 .. n -> 1 .. n] : \A i, j \in 1 .. n : f[i] = f[j] => i = j}

\* the orders in which the fetched list is tried again: reversed, with two
\* adjacent transfers exchanged, and every order of a list of at most
\* MaxPermuted transfers
Reorderings(ts) ==
    {[i \in DOMAIN ts |-> ts[Len(ts) + 1 - i]]}
        \cup {[i \in DOMAIN ts |-> IF i = k THEN ts[k + 1]
                                  ELSE IF i = k + 1 THEN ts[k] ELSE ts[i]] :
                 k \in 1 .. (Len(ts) - 1)}
        \cup (IF Len(ts) <= MaxPermuted
              THEN {[i \in DOMAIN ts |-> ts[f[i]]] : f \in Bijections(Len(ts))}
              ELSE {})

\* a pattern list as the set of its patterns, each with its evidence as a set
PatternSet(ps) ==
    {[type       |-> ps[i].type,
      severity   |-> ps[i].severity,
      confidence |-> ps[i].confidence,
      evidence   |-> Range(ps[i].transactions)] : i \in DOMAIN ps}

\* C19: detection over the same transfers in another order gives the same
\* set of patterns: the same types, severities, confidences and evidence
\* sets.
C19_OrderInsensitive ==
    ppc = "detected" =>
        \A ts \in Reorderings(txs) :
            PatternSet(detectTransactionPatterns(ts, FocalAddress))
                = PatternSet(patterns)

\* all four heuristics have fired on a list that holds a transfer without
\* an amount and has an order that differs from the fetched one
C19_Witness ==
    /\ ppc = "detected"
    /\ \A t \in {"RAPID_SUCCESSION", "CIRCULAR_TRADING", "WASH_TRADING",
                 "LAYERING"} : PatternsOfType(t) # {}
    /\ \E i \in DOMAIN txs : txs[i].amount = 0
    /\ \E ts \in Reorderings(txs) : ts # txs

----------------------------------------------------------------------------
(* Properties of the circular-flow findings *)

Findings == criticalPaths.suspiciousPatterns

\* flows holds a flow from a to b
Sent(a, b) == \E i \in DOMAIN flows : flows[i].from = a /\ flows[i].to = b

\* C14: every circular-flow finding has riskScore min(0.5 + 0.1 * n, 1),
\* n the number of addresses on its recorded path; and when the flows hold
\* A -> B -> C -> D -> A, the path A, B, C, D is found with riskScore 0.9.
C14_CircularRiskScore ==
    fpc = "done" =>
        /\ \A i \in DOMAIN Findings :
              LET n == Len(Findings[i].addresses)
              IN  /\ Findings[i].riskScore.k = "fin"
                  /\ Findings[i].riskScore.n * 10
                        = (IF 5 + n > 10 THEN 10 ELSE 5 + n)
                              * Findings[i].riskScore.d
        /\ (/\ flowParams.includeCircular
            /\ Sent("A", "B") /\ Sent("B", "C") /\ Sent("C", "D")
            /\ Sent("D", "A")) =>
               \E i \in DOMAIN Findings :
                   /\ Findings[i].addresses = <<"A", "B", "C", "D">>
                   /\ Findings[i].riskScore = Fin(9, 10)

\* A -> B -> C -> D -> A has been found beside a path of 3 and one of 6
\* addresses
C14_Witness ==
    /\ fpc = "done"
    /\ \E i \in DOMAIN Findings :
          /\ Findings[i].addresses = <<"A", "B", "C", "D">>
          /\ Findings[i].riskScore = Fin(9, 10)
    /\ \E i \in DOMAIN Findings : Len(Findings[i].addresses) = 3
    /\ \E i \in DOMAIN Findings :
          /\ Len(Findings[i].addresses) = 6
          /\ Findings[i].riskScore = Fin(1, 1)

----------------------------------------------------------------------------
(* Properties of the clusters' scores and relations *)

\* the ordered pairs of distinct members a, b of the cluster c with b among
\* the counterparties of a
LinkedPairs(c) ==
    {p \in Range(run.clusters[c].addresses) \X Range(run.clusters[c].addresses) :
        p[1] # p[2] /\ p[2] \in Neighbours(p[1])}

Adjacent(a) ==
    UNION {{IF t.source = a THEN t.destination ELSE t.source :
               t \in {u \in Range(HandedBy(i)) :
                         u.source = a \/ u.destination = a}} :
              i \in {j \in DOMAIN run.fetched :
                        ~(j = 1 /\ a = CenterAddress)}}
        \ {""}

\* the pairs a in cluster i, b in cluster j with b in Adj(a)
CrossPairs(Adj(_), i, j) ==
    {p \in Range(run.clusters[i].addresses) \X Range(run.clusters[j].addresses) :
        p[2] \in Adj(p[1])}

\* the entries of cluster i's relatedClusters that name cluster j
Listed(i, j) ==
    {k \in DOMAIN run.clusters[i].relatedClusters :
        run.clusters[i].relatedClusters[k].id = run.clusters[j].id}

\* cluster i lists another cluster j, once, exactly when the pairs linked by
\* Adj are more than 0.1 of |i| * |j|, with that quotient as strength
RelatedIffStrength(Adj(_)) ==
    run.pc = "done" =>
        \A i \in DOMAIN run.clusters :
            /\ Listed(i, i) = {}
            /\ \A k \in DOMAIN run.clusters[i].relatedClusters :
                  \E j \in DOMAIN run.clusters : k \in Listed(i, j)
            /\ \A j \in DOMAIN run.clusters \ {i} :
                  LET pairs == Cardinality(CrossPairs(Adj, i, j))
                      sizes == Len(run.clusters[i].addresses)
                                  * Len(run.clusters[j].addresses)
                  IN  /\ Cardinality(Listed(i, j))
                            = IF 10 * pairs > sizes THEN 1 ELSE 0
                      /\ \A k \in Listed(i, j) :
                            LET x == run.clusters[i].relatedClusters[k].strength
                            IN  /\ x.k = "fin"
                                /\ x.n * sizes = pairs * x.d
                                /\ 10 * x.n > x.d
                                /\ x.n <= x.d

ListingCenter ==
    {i \in DOMAIN run.clusters :
        \E k \in DOMAIN run.clusters[i].relatedClusters :
            run.clusters[i].relatedClusters[k].id = 0}

\* C29: with depth <= 1 the center cluster's relatedClusters is empty for
\* every ledger, the center having no adjacency entry, whether or not other
\* clusters list 'center'.
C29_CenterListsNothingAtDepthOne ==
    (run.pc = "done" /\ run.depth <= 1) =>
        /\ run.clusters[1].id = 0
        /\ run.clusters[1].relatedClusters = <<>>
        /\ ~MapHas(run.graph.addressConnections, CenterAddress)

\* at depth 1 a cluster of several members lists 'center', whose own list
\* is empty, beside a cluster that does not list it
C29_Witness ==
    /\ run.pc = "done"
    /\ run.depth = 1
    /\ \E i \in ListingCenter : Len(run.clusters[i].addresses) >= 2
    /\ \E i \in DOMAIN run.clusters \ {1} : i \notin ListingCenter
    /\ run.clusters[1].relatedClusters = <<>>

----------------------------------------------------------------------------
(* Properties of the graph built from the fetched transfers *)

\* a transfer from the center to the center
SelfTransfer(t) == t.source = CenterAddress /\ t.destination = CenterAddress

\* ts without the center's self-transfers
WithoutSelfTransfers(ts) == SelectSeq(ts, LAMBDA t : ~SelfTransfer(t))

\* the graph the fetches of the run build when the center's self-transfers
\* are taken out of what they hand over
RECURSIVE GraphWithoutSelfTransfers(_)
GraphWithoutSelfTransfers(i) ==
    IF i = 1
    THEN FirstLevel(EmptyGraph, WithoutSelfTransfers(HandedBy(1)), CenterAddress)
    ELSE SecondLevel(GraphWithoutSelfTransfers(i - 1),
                     WithoutSelfTransfers(HandedBy(i)))

\* C26: a transfer from the center to the center leaves the graph of the
\* run as it would be without it, at every depth: no address, no edge, no
\* interaction count and no volume comes from it.
C26_SelfTransfersExcluded ==
    run.pc = "done" => run.graph = GraphWithoutSelfTransfers(Len(run.fetched))

\* the ends of handed transfers that are the address a, each transfer taken
\* once however many fetches handed it
EndsOnce(a) ==
    {f \in Handed \X {"source", "destination"} : f[1][f[2]] = a}

\* the sum of the amounts of a set of ends
RECURSIVE AmountOf(_)
AmountOf(F) ==
    IF F = {} THEN 0
    ELSE LET f == CHOOSE x \in F : TRUE
         IN  f[1].amount + AmountOf(F \ {f})

\* the sum over the members of a cluster of the ends taken once
RECURSIVE EndsOnceOf(_)
EndsOnceOf(S) ==
    IF S = {} THEN 0
    ELSE LET a == CHOOSE x \in S : TRUE
         IN  Cardinality(EndsOnce(a)) + EndsOnceOf(S \ {a})

\* C30: with depth > 1 a transfer handed by the center fetch and again by
\* an expansion fetch counts once for each of its ends: the interaction
\* count and the volume of every address but the center are those of the
\* distinct transfers it is an end of, and a cluster's transactions count
\* is the sum of its members' counts.
C30_NoTransferCountedTwice ==
    (run.pc = "done" /\ run.depth > 1) =>
        /\ \A a \in Observed \ {CenterAddress} :
              /\ MapGet(run.graph.addressInteractions, a)
                    = Cardinality(EndsOnce(a))
              /\ MapGet(run.graph.addressVolume, a) = AmountOf(EndsOnce(a))
        /\ \A c \in 2 .. Len(run.clusters) :
              run.clusters[c].transactions
                 = EndsOnceOf(Range(run.clusters[c].addresses))

----------------------------------------------------------------------------
(* Properties of the circular-path search *)

\* the addresses of the candidate flows
FlowAddresses ==
    {FlowChain[k].from : k \in DOMAIN FlowChain}
        \cup {FlowChain[k].to : k \in DOMAIN FlowChain}

\* the lists of at least 3 pairwise distinct addresses
DistinctPaths ==
    UNION {{p \in [1 .. n -> FlowAddresses] :
               \A i, j \in 1 .. n : p[i] = p[j] => i = j} :
              n \in 3 .. Cardinality(FlowAddresses)}

\* the simple directed cycles of the flow graph, one list per start node
SimpleCycles ==
    LET edges == {<<flows[i].from, flows[i].to>> : i \in DOMAIN flows}
    IN  {p \in DistinctPaths :
            /\ <<p[Len(p)], p[1]>> \in edges
            /\ \A i \in 1 .. (Len(p) - 1) : <<p[i], p[i + 1]>> \in edges}

\* C23: for every start node s and every simple directed cycle through s of
\* at least 3 distinct addresses, a finding records exactly the cycle's
\* addresses in order from s, whatever a sibling branch visited before.
C23_EverySimpleCycleFromEveryStart ==
    (fpc = "done" /\ flowParams.includeCircular) =>
        \A p \in SimpleCycles :
            \E i \in DOMAIN Findings : Findings[i].addresses = p

\* two cycles from A share B and C: A, B, C, D and A, B, C; both are found,
\* and so is the first from its start D
C23_Witness ==
    /\ fpc = "done"
    /\ \E i \in DOMAIN Findings : Findings[i].addresses = <<"A", "B", "C", "D">>
    /\ \E i \in DOMAIN Findings : Findings[i].addresses = <<"A", "B", "C">>
    /\ \E i \in DOMAIN Findings : Findings[i].addresses = <<"D", "A", "B", "C">>

\* the keys of the address graph: the senders, each a start of the search
StartNodes == {flows[i].from : i \in DOMAIN flows}

\* what the search started at s finds
FoundFrom(s) == findCircularPaths(AddressGraph(<<>>, flows), s, s, {}, <<>>)

\* the addresses of p are pairwise distinct
Simple(p) == \A i, j \in DOMAIN p : p[i] = p[j] => i = j

\* there is a flow between each consecutive pair of p and from its last
\* address back to its first
Closed(p) ==
    /\ Sent(p[Len(p)], p[1])
    /\ \A i \in 1 .. (Len(p) - 1) : Sent(p[i], p[i + 1])

\* C28: every circular-flow finding is a simple cycle: at least 3 pairwise
\* distinct addresses, a flow between each consecutive pair and from the last
\* back to the first, the first being the start node of the search that found
\* it; flows among at most two addresses (a self-transfer, a reciprocal pair)
\* produce no finding.
C28_FindingsAreSimpleCycles ==
    fpc = "done" =>
        /\ \A i \in DOMAIN Findings :
              LET p == Findings[i].addresses
              IN  Len(p) >= 3 /\ Simple(p) /\ Closed(p)
        /\ \A s \in StartNodes :
              \A i \in DOMAIN FoundFrom(s) : FoundFrom(s)[i].addresses[1] = s
        /\ Cardinality(StartNodes \cup {flows[i].to : i \in DOMAIN flows}) <= 2
              => Findings = <<>>

\* a tail leads into a cycle that does not come back to the tail's start:
\* the search from E walks E, A, B, C and revisits A, the cycle A, B, C is
\* found from A, and nothing is found with E in it
C28_Witness ==
    /\ fpc = "done"
    /\ Sent("E", "A") /\ ~ Sent("A", "A")
    /\ \E i \in DOMAIN Findings : Findings[i].addresses = <<"A", "B", "C">>
    /\ \A i \in DOMAIN Findings :
          \A k \in DOMAIN Findings[i].addresses : Findings[i].addresses[k] # "E"

\* the distinct addresses of the flows
Addresses == StartNodes \cup {flows[i].to : i \in DOMAIN flows}

\* how deep the search started at s nests
DepthFrom(s) == findCircularPathsDepth(AddressGraph(<<>>, flows), s, {}, <<>>)

\* C27: the circular-path search returns on every flow set: each nested call
\* has one more visited address, so from no start node do the calls nest
\* deeper than the number of distinct addresses plus one, and no finding
\* holds more addresses than there are.
C27_SearchDepthBounded ==
    fpc = "done" =>
        /\ \A s \in StartNodes : DepthFrom(s) <= Cardinality(Addresses) + 1
        /\ \A i \in DOMAIN Findings :
              Len(Findings[i].addresses) <= Cardinality(Addresses)

\* the search has run over a cycle through all six addresses: the calls nest
\* seven deep and a finding holds six addresses
C27_Witness ==
    /\ fpc = "done"
    /\ Cardinality(Addresses) = 6
    /\ \E s \in StartNodes : DepthFrom(s) = 7
    /\ \E i \in DOMAIN Findings : Len(Findings[i].addresses) = 6

----------------------------------------------------------------------------
(* Properties of the circular-trading heuristic and of the risk report *)

\* how many ends of transfers the address a is, a not the focal address
Interactions(a) ==
    Cardinality({e \in (DOMAIN txs) \X {"source", "destination"} :
                    txs[e[1]][e[2]] = a})

\* the counterparties with 3 or more interactions
Frequent ==
    {a \in ({txs[i].source : i \in DOMAIN txs}
               \cup {txs[i].destination : i \in DOMAIN txs})
              \ {"", FocalAddress} : Interactions(a) >= 3}

\* the transfers with a frequent counterparty as source or destination
FrequentTransfers ==
    LET frequent == Frequent
    IN  SelectSeq(txs, LAMBDA tx : tx.source \in frequent \/ tx.destination \in frequent)

\* C24: CIRCULAR_TRADING is emitted, once, if and only if some counterparty
\* other than the focal address has 3 or more interactions and at least 3
\* transfers have such a counterparty as source or destination; the pattern
\* is high with confidence 0.7 and its evidence is the signatures of exactly
\* those transfers.
C24_CircularIffFrequentCounterparty ==
    Detected =>
        LET touching == FrequentTransfers
        IN  /\ Cardinality(PatternsOfType("CIRCULAR_TRADING"))
                  = IF Frequent # {} /\ Len(touching) >= 3 THEN 1 ELSE 0
            /\ \A i \in PatternsOfType("CIRCULAR_TRADING") :
                  /\ patterns[i].severity = "high"
                  /\ patterns[i].confidence = 70
                  /\ patterns[i].transactions
                        = [k \in DOMAIN touching |-> touching[k].signature]

\* the pattern is emitted on 3 transfers of a list that holds others too
C24_Witness ==
    /\ Detected
    /\ PatternsOfType("CIRCULAR_TRADING") # {}
    /\ Len(FrequentTransfers) = 3
    /\ Len(txs) > 3

\* 0.4 * f[1] + 0.3 * f[2] + 0.15 * f[3] + 0.15 * f[4]
WeightedFactors(f) ==
    Plus(Plus(Plus(Times(f[1], 40), Times(f[2], 30)), Times(f[3], 15)),
         Times(f[4], 15))

\* x <= y for two finite scores, compared over their common denominator
AtMost(x, y) ==
    /\ x.k = "fin" /\ y.k = "fin"
    /\ LET g == Gcd(x.d, y.d)
       IN  x.n * (y.d \div g) <= y.n * (x.d \div g)

\* the score o is no greater than some score of f and no less than some
Between(o, f) ==
    /\ \E i \in DOMAIN f : AtMost(o, f[i])
    /\ \E i \in DOMAIN f : AtMost(f[i], o)

\* C25: the overall score of a report is 0.4, 0.3, 0.15 and 0.15 times the
\* pattern, volume, interaction and temporal scores listed in riskFactors, in
\* that order, and lies between the smallest and the largest of them.
C25_OverallBetweenFactors ==
    ppc = "reported" =>
        /\ Len(report.riskFactors) = 4
        /\ report.overallRiskScore = WeightedFactors(report.riskFactors)
        /\ Between(report.overallRiskScore, report.riskFactors)

====
